---- MODULE Spec2Model ----
(***************************************************************************)
(* Forge: the session supervisor (electron main process), the continuation *)
(* engine (electron/agents/continuation.ts) and the store statements they   *)
(* use (electron/database/db.ts).                                          *)
(*                                                                         *)
(* Everything runs on one JavaScript thread, so each IPC handler, PTY       *)
(* callback and timer callback is one atomic action.                        *)
(*                                                                         *)
(* Numbers that may be fractional (maxIterations comes from the renderer   *)
(* as an arbitrary JavaScript number) are held in HALVES: the model value  *)
(* 3 stands for 1.5.  Half(k) converts an integer count to that unit.       *)
(*                                                                         *)
(* Text is held as a sequence of tokens:                                   *)
(*   "x"  ordinary output text (no newline, no prompt glyph, no phrase)     *)
(*   "s"  one blank                "n"  one newline                        *)
(*   "N"  a run of five newlines                                           *)
(*   "$"  a prompt glyph, U+276F or the dollar sign                        *)
(*   ">"  the character >          "c"  one of claude, gemini, codex       *)
(*   "w"  a drive prefix such as C:                                        *)
(*   "M"  the literal __FORGE_ONE_SHOT_DONE__                              *)
(*   "D"  a completion phrase such as "task complete" at word boundaries   *)
(***************************************************************************)
EXTENDS Integers, Sequences, FiniteSets, TLC

\* ---- bounds of the model ------------------------------------------------
MaxPty == 2          \* PTY children created by shell:spawn
MaxRuns == 2         \* ContinuationState objects created (runs[r] is the r-th)
MaxLoad == 3         \* PTY children created plus continuations started
MaxBuf == 2          \* tokens held in one outputBuffer
MaxIterArg == 3      \* largest maxIterations argument sent, in halves (= 1.5)

\* ---- program constants --------------------------------------------------
MAX_BUFFER_SIZE == 50000
BUFFER_TRIM_TO == 20000
DEFAULT_MAX_ITERATIONS == 20
MAX_ITERATIONS_CAP == 100

PtyIds == 1..MaxPty
\* the maxIterations argument left out or not a number
NoArg == -1000

Half(k) == 2 * k

VARIABLES
  mainWindow,          \* "null" or "open": whether mainWindow holds a BrowserWindow
  ptySessions,         \* Map ptyId -> PtySession
  idleNotifTimers,     \* keys of the Map ptyId -> pending idle timer
  sessionHadActivity,  \* Set of ptyIds
  states,              \* continuation engine: Map ptyId -> ContinuationState (index in runs)
  runs,                \* the heap of ContinuationState objects
  agent_sessions,      \* table agent_sessions, by session id
  continuation_state,  \* table continuation_state, by pty_id
  procs,               \* the PTY children: "none", "alive", "exited"
  emitted,             \* what the last handler sent, called and showed, in order
  hist,                \* history of the commands and events seen so far
  jobs,                \* the ensemble:synthesis calls in flight or finished, by jobId
  tempRoots,           \* the temp directories forge-claude-<jobId>-<run>- on disk
  userHome,            \* ~/.claude.json and ~/.claude/ of the user's real home
  workspace_memories,  \* table workspace_memories, by id
  memories_fts,        \* the full-text index memories_fts: a bag of entries
  memLast,             \* the last memory command on each (workspaceId, key)
  task,                \* the description handed to routeTask
  processEnv,          \* process.env of the main process
  children,            \* what nodePty.spawn was called with, by ptyId
  goalTimers,          \* the pending goal timers: Map ptyId -> goalStr
  hidden,              \* one call of runHiddenClaudeOnce: its child, flag, timer, promise
  agents,              \* renderer: the agents map of the WorkspaceProvider
  reply                \* what the last memory or routing command returned

\* the supervisor and the continuation engine
coreVars == <<mainWindow, ptySessions, idleNotifTimers, sessionHadActivity,
              states, runs, agent_sessions, continuation_state, procs, emitted, hist>>
\* the synthesis orchestrator
ensembleVars == <<jobs, tempRoots, userHome>>
\* the memory store
memoryVars == <<workspace_memories, memories_fts, memLast>>
\* the task router
routerVars == <<task>>

\* the arguments of shell:spawn
spawnVars == <<processEnv, children, goalTimers>>

\* one hidden run, and the renderer
viewVars == <<hidden, agents>>

vars == <<coreVars, ensembleVars, memoryVars, routerVars, spawnVars, viewVars, reply>>

\* all the state as one record, so that a handler is a function on it
Current ==
  [mainWindow |-> mainWindow, ptySessions |-> ptySessions,
   idleNotifTimers |-> idleNotifTimers, sessionHadActivity |-> sessionHadActivity,
   states |-> states, runs |-> runs, agent_sessions |-> agent_sessions,
   continuation_state |-> continuation_state, procs |-> procs,
   emitted |-> <<>>, hist |-> hist]

\* The heap of ContinuationState objects: runs[r] is the object that the r-th
\* startContinuation created, or Free.  An
\* object that the engine's map no longer holds and that no pending timer
\* callback refers to is garbage: it is still shown in the state that its last
\* handler left, and its slot is Free when the next handler starts.
Free == [status |-> "free"]
IsFree(w, r) == w.runs[r].status = "free"
Reachable(w, r) ==
  /\ ~IsFree(w, r)
  /\ \/ w.runs[r].pending > 0
     \/ \E p \in DOMAIN w.states : w.states[p] = r
Sweep(w) ==
  [w EXCEPT !.runs = [r \in DOMAIN w.runs |-> IF Reachable(w, r) THEN w.runs[r] ELSE Free]]

\* the state a handler starts from
World == Sweep(Current)

\* the state a handler leaves
CoreBecomes(w) ==
  \E v \in {w} :
    /\ mainWindow' = v.mainWindow
    /\ ptySessions' = v.ptySessions
    /\ idleNotifTimers' = v.idleNotifTimers
    /\ sessionHadActivity' = v.sessionHadActivity
    /\ states' = v.states
    /\ runs' = v.runs
    /\ agent_sessions' = v.agent_sessions
    /\ continuation_state' = v.continuation_state
    /\ procs' = v.procs
    /\ emitted' = v.emitted
    /\ hist' = v.hist

Becomes(w) ==
  /\ CoreBecomes(w)
  /\ UNCHANGED <<ensembleVars, memoryVars, routerVars, spawnVars, viewVars, reply>>

\* ---- small helpers ------------------------------------------------------
MapDelete(m, k) == [x \in DOMAIN m \ {k} |-> m[x]]
MapSet(m, k, v) == [x \in DOMAIN m \cup {k} |-> IF x = k THEN v ELSE m[x]]

\* emitted holds, in order, the callbacks entered, the hooks called, the
\* messages sent to the window and the notifications shown by one handler
Event(name, p, n) == [ev |-> name, pty |-> p, n |-> n]
Has(es, name, p) == \E i \in 1..Len(es) : es[i].ev = name /\ es[i].pty = p
Count(es, name, p) == Cardinality({i \in 1..Len(es) : es[i].ev = name /\ es[i].pty = p})
Emit(w, e) == [w EXCEPT !.emitted = Append(@, e)]

Min(a, b) == IF a <= b THEN a ELSE b

\* ---- text ---------------------------------------------------------------
Tokens == {"x", "s", "n", "N", "$", ">", "c", "w", "M", "D"}

\* \s of a regular expression
IsSpace(t) == t \in {"s", "n", "N"}
\* number of newline characters in a token
Newlines(t) == IF t = "N" THEN 5 ELSE IF t = "n" THEN 1 ELSE 0

RECURSIVE NewlinesFrom(_, _)
\* newline characters in buf[i..Len(buf)]
NewlinesFrom(buf, i) ==
  IF i > Len(buf) THEN 0 ELSE Newlines(buf[i]) + NewlinesFrom(buf, i + 1)

\* state.outputBuffer.split('\n').slice(-5).join('\n'): the text after the
\* fifth newline from the end (all of it when there are fewer than five).
\* Newlines left at the head of the result are dropped: they match no
\* pattern and the token after them starts a line either way.
LastLines(buf) ==
  IF NewlinesFrom(buf, 1) <= 4 THEN buf
  ELSE LET cut == CHOOSE i \in 1..Len(buf) :
                    /\ NewlinesFrom(buf, i) >= 5
                    /\ NewlinesFrom(buf, i + 1) < 5
       IN SubSeq(buf, cut + 1, Len(buf))

\* (?:^|\n) right before position i
AtLineStart(b, i) == i = 1 \/ b[i - 1] \in {"n", "N"}
\* \s*$ right after position i
BlankToEnd(b, i) == \A j \in (i + 1)..Len(b) : IsSpace(b[j])

\* IDLE_PROMPT_PATTERNS.some(p => p.test(text))
IDLE_PROMPT_PATTERNS(b) ==
  \/ \E i \in 1..Len(b) : b[i] = "$" /\ BlankToEnd(b, i)
       \* 1, 2: a prompt glyph anywhere on a line, blank after it
  \/ \E i \in 1..Len(b) : \E j \in (i + 1)..Len(b) :
       /\ AtLineStart(b, i) /\ b[i] = "w" /\ b[j] = ">" /\ BlankToEnd(b, j)
       /\ \A k \in i..j : b[k] \notin {"n", "N"}
       \* 3: drive prefix at line start, > later on that line
  \/ \E i \in 1..(Len(b) - 1) :
       AtLineStart(b, i) /\ b[i] = "c" /\ b[i + 1] = ">" /\ BlankToEnd(b, i + 1)
       \* 4: claude> gemini> codex> alone on the line
  \/ \E i \in 1..Len(b) : AtLineStart(b, i) /\ b[i] = "M" /\ BlankToEnd(b, i)
       \* 5: the one-shot marker alone on the line
  \/ \E i \in 1..Len(b) : AtLineStart(b, i) /\ b[i] = ">" /\ BlankToEnd(b, i)
       \* 6: a bare >

\* DONE_PATTERNS.some(p => p.test(state.outputBuffer))
DONE_PATTERNS(b) == \E i \in 1..Len(b) : b[i] = "D"

\* outputBuffer += data, cut to the last BUFFER_TRIM_TO when over MAX_BUFFER_SIZE
\* (lengths counted in tokens)
AppendOutput(buf, data) ==
  LET all == buf \o data
  IN IF Len(all) > MAX_BUFFER_SIZE
     THEN SubSeq(all, Len(all) - BUFFER_TRIM_TO + 1, Len(all))
     ELSE all

\* ---- store (electron/database/db.ts) -------------------------------------
\* ended_at holds the number of times the row's ended_at was written (0 = NULL)
createAgentSession(w, id) ==
  [w EXCEPT !.agent_sessions =
     MapSet(@, id, [status |-> "active", iteration_count |-> 0, ended_at |-> 0])]

endAgentSession(w, id) ==
  IF id \notin DOMAIN w.agent_sessions THEN w
  ELSE [w EXCEPT !.agent_sessions[id].status = "ended",
                 !.agent_sessions[id].ended_at = @ + 1]

incrementSessionIteration(w, id) ==
  IF id \notin DOMAIN w.agent_sessions THEN w
  ELSE [w EXCEPT !.agent_sessions[id].iteration_count = @ + 1]

saveContinuationState(w, ptyId, maxIterations, iteration) ==
  [w EXCEPT !.continuation_state =
     MapSet(@, ptyId, [max_iterations |-> maxIterations,
                       current_iteration |-> iteration, status |-> "active"])]

updateContinuationIteration(w, ptyId, iteration) ==
  IF ptyId \notin DOMAIN w.continuation_state THEN w
  ELSE [w EXCEPT !.continuation_state[ptyId].current_iteration = iteration,
                 !.continuation_state[ptyId].status = "active"]

deleteContinuationState(w, ptyId) ==
  [w EXCEPT !.continuation_state = MapDelete(@, ptyId)]

\* ---- continuation engine (electron/agents/continuation.ts) ---------------
\* A ContinuationState object is runs[r].  Besides the fields of the source it
\* carries: pending, the number of setTimeout callbacks of this object that
\* Node still holds; iterations, the values of the continuation:iteration
\* events sent for it; continues, the number of onContinue calls made for it;
\* ends, the number of continuation:done and continuation:maxReached events
\* sent for it.  Its field window is the BrowserWindow that was open at its
\* start; what is kept of that window is windowDestroyed.
win_isDestroyed(w, r) == w.runs[r].windowDestroyed

\* the hooks and the onContinue callback that continuation:start passes
\* (mutant) the row of the session is counted up whether or not its handle
\* is in the map
hooks_onIteration_always(w, id, iteration) ==
  incrementSessionIteration(
    updateContinuationIteration(Emit(w, Event("onIteration", id, iteration)),
                                id, iteration), id)

\* (mutant) the checkpoint row is not written
hooks_onIteration_noUpdate(w, id, iteration) ==
  LET w1 == Emit(w, Event("onIteration", id, iteration))
  IN IF id \in DOMAIN w1.ptySessions
     THEN incrementSessionIteration(w1, w1.ptySessions[id].sessionId)
     ELSE w1

hooks_onIteration(w, id, iteration) ==
  LET w1 == updateContinuationIteration(Emit(w, Event("onIteration", id, iteration)),
                                        id, iteration)
  IN IF id \in DOMAIN w1.ptySessions
     THEN incrementSessionIteration(w1, w1.ptySessions[id].sessionId)
     ELSE w1

hooks_onDone(w, id) == deleteContinuationState(Emit(w, Event("onDone", id, 0)), id)

hooks_onMaxReached(w, id) ==
  deleteContinuationState(Emit(w, Event("onMaxReached", id, 0)), id)

onContinue(w, id, r) ==
  LET w1 == [Emit(w, Event("onContinue", id, 0)) EXCEPT !.runs[r].continues = @ + 1]
  IN IF id \notin DOMAIN w1.ptySessions THEN w1
     ELSE Emit(w1, Event("pty.write", id, 0))

\* (mutant) the pending timer is not cleared
stopContinuation_keepsTimer(w, ptyId) ==
  IF ptyId \notin DOMAIN w.states THEN w
  ELSE LET r == w.states[ptyId]
       IN [w EXCEPT !.runs[r].status = "cancelled",
                    !.states = MapDelete(@, ptyId)]

\* (mutant) the cancelled state is left in the map
stopContinuation_keepsEntry(w, ptyId) ==
  IF ptyId \notin DOMAIN w.states THEN w
  ELSE LET r == w.states[ptyId]
       IN [w EXCEPT !.runs[r].pending = IF w.runs[r].timer THEN @ - 1 ELSE @,
                    !.runs[r].status = "cancelled"]

stopContinuation(w, ptyId) ==
  IF ptyId \notin DOMAIN w.states THEN w
  ELSE LET r == w.states[ptyId]
       IN [w EXCEPT !.runs[r].pending = IF w.runs[r].timer THEN @ - 1 ELSE @,
                    !.runs[r].status = "cancelled",
                    !.states = MapDelete(@, ptyId)]

scheduleCheck(w, r) ==
  IF w.runs[r].status # "running" THEN w
  ELSE [w EXCEPT !.runs[r].timer = TRUE, !.runs[r].pending = @ + 1]

\* (mutant) the cap is compared with > instead of >=
runIteration_offByOne(w, r) ==
  LET st == w.runs[r]
  IN IF st.status # "running" THEN w
     ELSE IF win_isDestroyed(w, r) THEN stopContinuation(w, st.ptyId)
     ELSE IF Half(st.currentIteration) > st.maxIterations
     THEN LET w1 == [w EXCEPT !.runs[r].status = "max_reached",
                              !.runs[r].ends = @ + 1,
                              !.states = MapDelete(@, st.ptyId)]
          IN Emit(hooks_onMaxReached(w1, st.ptyId),
                  Event("continuation:maxReached", st.ptyId, st.currentIteration))
     ELSE LET i  == st.currentIteration + 1
              w1 == [w EXCEPT !.runs[r].currentIteration = i,
                              !.runs[r].outputBuffer = <<>>,
                              !.runs[r].iterations = Append(@, i)]
              w2 == hooks_onIteration(w1, st.ptyId, i)
              w3 == Emit(w2, Event("continuation:iteration", st.ptyId, i))
              w4 == onContinue(w3, st.ptyId, r)
          IN scheduleCheck(w4, r)

\* (mutant) onContinue is called before the hook and the event
runIteration_continueFirst(w, r) ==
  LET st == w.runs[r]
  IN IF st.status # "running" THEN w
     ELSE IF win_isDestroyed(w, r) THEN stopContinuation(w, st.ptyId)
     ELSE IF Half(st.currentIteration) >= st.maxIterations
     THEN LET w1 == [w EXCEPT !.runs[r].status = "max_reached",
                              !.runs[r].ends = @ + 1,
                              !.states = MapDelete(@, st.ptyId)]
          IN Emit(hooks_onMaxReached(w1, st.ptyId),
                  Event("continuation:maxReached", st.ptyId, st.currentIteration))
     ELSE LET i  == st.currentIteration + 1
              w1 == [w EXCEPT !.runs[r].currentIteration = i,
                              !.runs[r].outputBuffer = <<>>,
                              !.runs[r].iterations = Append(@, i)]
              w2 == onContinue(w1, st.ptyId, r)
              w3 == hooks_onIteration(w2, st.ptyId, i)
              w4 == Emit(w3, Event("continuation:iteration", st.ptyId, i))
          IN scheduleCheck(w4, r)

runIteration(w, r) ==
  LET st == w.runs[r]
  IN IF st.status # "running" THEN w
     ELSE IF win_isDestroyed(w, r) THEN stopContinuation(w, st.ptyId)
     ELSE IF Half(st.currentIteration) >= st.maxIterations
     THEN LET w1 == [w EXCEPT !.runs[r].status = "max_reached",
                              !.runs[r].ends = @ + 1,
                              !.states = MapDelete(@, st.ptyId)]
          IN Emit(hooks_onMaxReached(w1, st.ptyId),
                  Event("continuation:maxReached", st.ptyId, st.currentIteration))
     ELSE LET i  == st.currentIteration + 1
              w1 == [w EXCEPT !.runs[r].currentIteration = i,
                              !.runs[r].outputBuffer = <<>>,
                              !.runs[r].iterations = Append(@, i)]
              w2 == hooks_onIteration(w1, st.ptyId, i)
              w3 == Emit(w2, Event("continuation:iteration", st.ptyId, i))
              w4 == onContinue(w3, st.ptyId, r)
          IN scheduleCheck(w4, r)

\* (mutant) the prompt is looked for before the completion marker
checkAndContinue_promptFirst(w, r) ==
  LET st == w.runs[r]
  IN IF st.status # "running" THEN w
     ELSE IF win_isDestroyed(w, r) THEN stopContinuation(w, st.ptyId)
     ELSE IF st.requirePrompt /\ ~IDLE_PROMPT_PATTERNS(LastLines(st.outputBuffer))
     THEN scheduleCheck(w, r)
     ELSE IF DONE_PATTERNS(st.outputBuffer)
     THEN LET w1 == [w EXCEPT !.runs[r].status = "done",
                              !.runs[r].ends = @ + 1,
                              !.states = MapDelete(@, st.ptyId)]
          IN Emit(hooks_onDone(w1, st.ptyId),
                  Event("continuation:done", st.ptyId, st.currentIteration))
     ELSE runIteration(w, r)

\* (mutant) the window is not looked at when the timer fires
checkAndContinue_ignoresWindow(w, r) ==
  LET st == w.runs[r]
  IN IF st.status # "running" THEN w
     ELSE IF DONE_PATTERNS(st.outputBuffer)
     THEN LET w1 == [w EXCEPT !.runs[r].status = "done",
                              !.runs[r].ends = @ + 1,
                              !.states = MapDelete(@, st.ptyId)]
          IN Emit(hooks_onDone(w1, st.ptyId),
                  Event("continuation:done", st.ptyId, st.currentIteration))
     ELSE IF st.requirePrompt /\ ~IDLE_PROMPT_PATTERNS(LastLines(st.outputBuffer))
     THEN scheduleCheck(w, r)
     ELSE runIteration(w, r)

\* (mutant) the prompt is not looked for
checkAndContinue_noPrompt(w, r) ==
  LET st == w.runs[r]
  IN IF st.status # "running" THEN w
     ELSE IF win_isDestroyed(w, r) THEN stopContinuation(w, st.ptyId)
     ELSE IF DONE_PATTERNS(st.outputBuffer)
     THEN LET w1 == [w EXCEPT !.runs[r].status = "done",
                              !.runs[r].ends = @ + 1,
                              !.states = MapDelete(@, st.ptyId)]
          IN Emit(hooks_onDone(w1, st.ptyId),
                  Event("continuation:done", st.ptyId, st.currentIteration))
     ELSE runIteration(w, r)

checkAndContinue(w, r) ==
  LET st == w.runs[r]
  IN IF st.status # "running" THEN w
     ELSE IF win_isDestroyed(w, r) THEN stopContinuation(w, st.ptyId)
     ELSE IF DONE_PATTERNS(st.outputBuffer)
     THEN LET w1 == [w EXCEPT !.runs[r].status = "done",
                              !.runs[r].ends = @ + 1,
                              !.states = MapDelete(@, st.ptyId)]
          IN Emit(hooks_onDone(w1, st.ptyId),
                  Event("continuation:done", st.ptyId, st.currentIteration))
     ELSE IF st.requirePrompt /\ ~IDLE_PROMPT_PATTERNS(LastLines(st.outputBuffer))
     THEN scheduleCheck(w, r)
     ELSE runIteration(w, r)

\* (mutant) the kick-off is left to the quiet timer
startContinuation_noKickOff(w, ptyId, maxIterations, kickOff, requirePrompt) ==
  LET w1 == stopContinuation(w, ptyId)
      r  == w1.hist.starts + 1
      state == [ptyId |-> ptyId, maxIterations |-> maxIterations,
                currentIteration |-> 0, status |-> "running",
                requirePrompt |-> requirePrompt, timer |-> FALSE,
                outputBuffer |-> <<>>, windowDestroyed |-> FALSE,
                pending |-> 0, iterations |-> <<>>, continues |-> 0, ends |-> 0]
      w2 == [w1 EXCEPT !.runs[r] = state, !.states = MapSet(@, ptyId, r),
                       !.hist.starts = r]
  IN scheduleCheck(w2, r)

startContinuation(w, ptyId, maxIterations, kickOff, requirePrompt) ==
  LET w1 == stopContinuation(w, ptyId)
      r  == w1.hist.starts + 1
      state == [ptyId |-> ptyId, maxIterations |-> maxIterations,
                currentIteration |-> 0, status |-> "running",
                requirePrompt |-> requirePrompt, timer |-> FALSE,
                outputBuffer |-> <<>>, windowDestroyed |-> FALSE,
                pending |-> 0, iterations |-> <<>>, continues |-> 0, ends |-> 0]
      w2 == [w1 EXCEPT !.runs[r] = state, !.states = MapSet(@, ptyId, r),
                       !.hist.starts = r]
  IN IF kickOff THEN runIteration(w2, r) ELSE scheduleCheck(w2, r)

\* (mutant) the pending timer is not cleared before the next one is set
onPtyData_keepsTimer(w, ptyId, data) ==
  IF ptyId \notin DOMAIN w.states THEN w
  ELSE LET r == w.states[ptyId]
       IN IF w.runs[r].status # "running" THEN w
          ELSE scheduleCheck([w EXCEPT !.runs[r].outputBuffer = AppendOutput(@, data)], r)

onPtyData(w, ptyId, data) ==
  IF ptyId \notin DOMAIN w.states THEN w
  ELSE LET r == w.states[ptyId]
       IN IF w.runs[r].status # "running" THEN w
          ELSE LET w1 == [w EXCEPT !.runs[r].outputBuffer = AppendOutput(@, data)]
                   w2 == IF w1.runs[r].timer
                         THEN [w1 EXCEPT !.runs[r].pending = @ - 1,
                                         !.runs[r].timer = FALSE]
                         ELSE w1
               IN scheduleCheck(w2, r)

\* the callback that scheduleCheck hands to setTimeout
quietTimerCallback(w, r) ==
  checkAndContinue([Emit(w, Event("quietTimer", w.runs[r].ptyId, r))
                      EXCEPT !.runs[r].timer = FALSE, !.runs[r].pending = @ - 1], r)

\* ---- supervisor (electron main process) ---------------------------------
\* ptySession.pty.kill(): the child ends later, by PtyExit
pty_kill(w, ptyId) == Emit(w, Event("pty.kill", ptyId, 0))

\* (mutant) the handle is left in the map
cleanupPtySession_keepsHandle(w, ptyId) ==
  IF ptyId \notin DOMAIN w.ptySessions THEN w
  ELSE LET ptySession == w.ptySessions[ptyId]
           w2 == pty_kill(w, ptyId)
           w3 == endAgentSession(w2, ptySession.sessionId)
           w4 == deleteContinuationState(w3, ptyId)
           w5 == [w4 EXCEPT !.idleNotifTimers = @ \ {ptyId},
                            !.sessionHadActivity = @ \ {ptyId}]
       IN stopContinuation(w5, ptyId)

\* (mutant) no early return for a ptyId that is not in the map
cleanupPtySession_noGuard(w, ptyId) ==
  LET w1 == [w EXCEPT !.ptySessions = MapDelete(@, ptyId)]
      w2 == IF ptyId \in DOMAIN w.ptySessions THEN pty_kill(w1, ptyId) ELSE w1
      w3 == endAgentSession(w2, ptyId)
      w4 == deleteContinuationState(w3, ptyId)
      w5 == [w4 EXCEPT !.idleNotifTimers = @ \ {ptyId},
                       !.sessionHadActivity = @ \ {ptyId}]
  IN stopContinuation(w5, ptyId)

cleanupPtySession(w, ptyId) ==
  IF ptyId \notin DOMAIN w.ptySessions THEN w
  ELSE LET ptySession == w.ptySessions[ptyId]
           w1 == [w EXCEPT !.ptySessions = MapDelete(@, ptyId)]
           w2 == pty_kill(w1, ptyId)
           w3 == endAgentSession(w2, ptySession.sessionId)
           w4 == deleteContinuationState(w3, ptyId)
           w5 == [w4 EXCEPT !.idleNotifTimers = @ \ {ptyId},
                            !.sessionHadActivity = @ \ {ptyId}]
       IN stopContinuation(w5, ptyId)

RECURSIVE cleanupAll(_, _)
\* for (const [ptyId] of ptySessions) cleanupPtySession(ptyId)
cleanupAll(w, ids) ==
  IF ids = {} THEN w
  ELSE LET ptyId == CHOOSE x \in ids : \A y \in ids : x <= y
       IN cleanupAll(cleanupPtySession(w, ptyId), ids \ {ptyId})

\* mainWindow.on('closed')
\* the window is destroyed when 'closed' is emitted
DestroyWindow(w) ==
  [w EXCEPT !.runs = [r \in DOMAIN w.runs |->
                        IF IsFree(w, r) THEN w.runs[r]
                        ELSE [w.runs[r] EXCEPT !.windowDestroyed = TRUE]]]

window_closed(w) ==
  [cleanupAll(DestroyWindow(w), DOMAIN w.ptySessions) EXCEPT !.mainWindow = "null"]

\* !mainWindow?.isFocused(), with the window's focus read as `focused`
NotFocused(w, focused) == w.mainWindow = "null" \/ ~focused

\* what mainWindow?.webContents.send(channel, ptyId) does
SendToWindow(w, channel, ptyId) ==
  IF w.mainWindow = "null" THEN w ELSE Emit(w, Event(channel, ptyId, 0))

\* (mutant) the agent_sessions row is written before the child is created
shell_spawn_rowFirst(w, ptyId, ptyOk, workspaceKnown, oneShot) ==
  IF ~workspaceKnown THEN Emit(w, Event("spawn:throws", 0, 0))
  ELSE LET w1 == createAgentSession(w, ptyId)
       IN IF ~ptyOk THEN Emit(w1, Event("spawn:error", 0, 0))
          ELSE [w1 EXCEPT !.procs[ptyId] = "alive",
                          !.ptySessions =
                            MapSet(@, ptyId, [sessionId |-> ptyId,
                                              oneShotCommand |-> oneShot]),
                          !.hist.spawned = @ \cup {ptyId}]

\* the ptyId that the next successful nodePty.spawn belongs to
NextPtyId == Cardinality({p \in PtyIds : procs[p] # "none"}) + 1

\* ipcMain.handle('shell:spawn'): ptyOk = nodePty.spawn returned a child,
\* workspaceKnown = the workspaces row that agent_sessions.workspace_id
\* references exists (foreign_keys = ON), oneShot = useOneShotLoop
shell_spawn(w, ptyId, ptyOk, workspaceKnown, oneShot) ==
  IF ~ptyOk THEN Emit(w, Event("spawn:error", 0, 0))
  ELSE LET w1 == [w EXCEPT !.procs[ptyId] = "alive"]
       IN IF ~workspaceKnown
          THEN \* createAgentSession throws: the handler rejects here
               Emit(w1, Event("spawn:throws", 0, 0))
          ELSE LET w2 == createAgentSession(w1, ptyId)
                   w3 == [w2 EXCEPT !.ptySessions =
                            MapSet(@, ptyId, [sessionId |-> ptyId,
                                              oneShotCommand |-> oneShot]),
                                    !.hist.spawned = @ \cup {ptyId}]
               IN w3

\* ptyProcess.onData
pty_onData(w, ptyId, data) ==
  LET w0 == Emit(w, Event("pty.onData", ptyId, 0))
      w1 == [w0 EXCEPT !.sessionHadActivity = @ \cup {ptyId},
                       !.idleNotifTimers = @ \cup {ptyId}]
      w2 == onPtyData(w1, ptyId, data)
  IN SendToWindow(w2, "shell:data", ptyId)

\* the callback of the idle notification timer
idleTimerCallback(w, ptyId, focused) ==
  LET w1 == [Emit(w, Event("idleTimer", ptyId, 0)) EXCEPT !.idleNotifTimers = @ \ {ptyId}]
  IN IF NotFocused(w1, focused) /\ ptyId \in w1.sessionHadActivity
     THEN Emit(w1, Event("notify:idle", ptyId, 0))
     ELSE w1

\* ptyProcess.onExit; the event of the callback carries 1 when
\* mainWindow?.isFocused() is true at that moment and 0 otherwise
pty_onExit(w, ptyId, focused) ==
  LET hadActivity == ptyId \in w.sessionHadActivity
      w0 == Emit([w EXCEPT !.procs[ptyId] = "exited"],
                 Event("pty.onExit", ptyId, IF NotFocused(w, focused) THEN 0 ELSE 1))
      w1 == cleanupPtySession(w0, ptyId)
      w2 == IF NotFocused(w1, focused) /\ hadActivity
            THEN Emit(w1, Event("notify:exited", ptyId, 0))
            ELSE w1
  IN SendToWindow(w2, "shell:exit", ptyId)

\* ipcMain.handle('shell:kill')
shell_kill(w, ptyId) == cleanupPtySession(Emit(w, Event("shell:kill", ptyId, 0)), ptyId)

\* the clamp of continuation:start, in halves; arg = NoArg when maxIterations
\* is missing or not a finite number
ClampMaxIterations(arg) ==
  IF arg # NoArg /\ arg > 0
  THEN Min(arg, Half(MAX_ITERATIONS_CAP))
  ELSE Half(DEFAULT_MAX_ITERATIONS)

\* ipcMain.handle('continuation:start')
continuation_start(w, ptyId, arg) ==
  IF w.mainWindow = "null" THEN Emit(w, Event("start:error", ptyId, 0))
  ELSE LET max == ClampMaxIterations(arg)
           isOneShotLoop == /\ ptyId \in DOMAIN w.ptySessions
                            /\ w.ptySessions[ptyId].oneShotCommand
           w0 == Emit(w, Event("continuation:start", ptyId, 0))
           w1 == saveContinuationState(w0, ptyId, max, 0)
       IN startContinuation(w1, ptyId, max, isOneShotLoop, TRUE)

\* (mutant) the stop also cleans up the session
continuation_stop_killsSession(w, ptyId) ==
  deleteContinuationState(
    cleanupPtySession(Emit(w, Event("continuation:stop", ptyId, 0)), ptyId), ptyId)

\* ipcMain.handle('continuation:stop')
continuation_stop(w, ptyId) ==
  deleteContinuationState(
    stopContinuation(Emit(w, Event("continuation:stop", ptyId, 0)), ptyId), ptyId)

\* ---- initial state: after app ready (initDatabase, setupIPC, createWindow)
\* no synthesis job yet, a home with a healthy config, an empty memory table
NoJobs ==
  /\ jobs = <<>>
  /\ tempRoots = {}
NoMemories ==
  /\ workspace_memories = [rows |-> <<>>, sqlite_sequence |-> 0]
  /\ memories_fts = <<>>
  /\ memLast = <<>>
NoChildren ==
  /\ processEnv = <<>>
  /\ children = <<>>
  /\ goalTimers = <<>>
NoHiddenRun ==
  hidden = [child |-> "unspawned", finished |-> FALSE, timeout |-> "none",
            output |-> <<>>, resolved |-> <<>>, kills |-> 0, errored |-> FALSE,
            seen |-> <<>>]
NoAgents == agents = <<>>
NoTask ==
  /\ task = <<>>
  /\ reply = [op |-> "none"]

Init ==
  /\ NoJobs
  /\ NoChildren
  /\ NoHiddenRun
  /\ NoAgents
  /\ userHome = [claudeJson |-> "valid", backups |-> <<>>]
  /\ NoMemories
  /\ NoTask
  /\ mainWindow = "open"
  /\ ptySessions = <<>>
  /\ idleNotifTimers = {}
  /\ sessionHadActivity = {}
  /\ states = <<>>
  /\ runs = [r \in 1..MaxRuns |-> Free]
  /\ agent_sessions = <<>>
  /\ continuation_state = <<>>
  /\ procs = [p \in PtyIds |-> "none"]
  /\ emitted = <<>>
  /\ hist = [spawned |-> {}, removed |-> [p \in PtyIds |-> "no"], starts |-> 0]

\* ---- inputs ---------------------------------------------------------------
\* the data chunks a PTY delivers
Chunks == {<<"x">>, <<"$">>, <<"D">>}
\* the maxIterations arguments the renderer sends, in halves (1, 1.5, ...)
IterArgs == 2..MaxIterArg
\* the ptyIds the renderer can name: every id shell:spawn has returned
KnownIds == hist.spawned

\* hist.removed[p] tells which event came first for session p: "kill"
\* (shell:kill), "close" (the window was closed), "exit" (the PTY exited)
Removed(w, ids, cause) ==
  [w EXCEPT !.hist.removed =
     [p \in PtyIds |-> IF p \in ids /\ @[p] = "no" THEN cause ELSE @[p]]]

\* PTY children created so far plus continuations started so far
Load == (NextPtyId - 1) + hist.starts

\* ---- actions --------------------------------------------------------------
\* IPC commands come from the renderer of the open window
ShellSpawn ==
  /\ mainWindow = "open"
  /\ NextPtyId \in PtyIds
  /\ Load < MaxLoad
  /\ \E ptyOk \in BOOLEAN, workspaceKnown \in BOOLEAN, oneShot \in BOOLEAN :
       \E w \in {World} : Becomes(shell_spawn(w, NextPtyId, ptyOk, workspaceKnown, oneShot))

ShellKill ==
  /\ mainWindow = "open"
  /\ \E p \in KnownIds, w \in {World} :
       Becomes(Removed(shell_kill(w, p), {p}, "kill"))

PtyData ==
  \E p \in hist.spawned, data \in Chunks :
    /\ procs[p] = "alive"
    /\ p \in DOMAIN states =>
         Len(runs[states[p]].outputBuffer) + Len(data) <= MaxBuf
    /\ \E w \in {World} : Becomes(pty_onData(w, p, data))

PtyExit ==
  \E p \in hist.spawned, focused \in BOOLEAN :
    /\ procs[p] = "alive"
    /\ \E w \in {World} : Becomes(Removed(pty_onExit(w, p, focused), {p}, "exit"))

IdleTimerFires ==
  \E p \in idleNotifTimers, focused \in BOOLEAN :
    \E w \in {World} : Becomes(idleTimerCallback(w, p, focused))

QuietTimerFires ==
  \E r \in DOMAIN runs :
    /\ ~IsFree(World, r)
    /\ runs[r].pending > 0
    /\ \E w \in {World} : Becomes(quietTimerCallback(w, r))

ContinuationStart ==
  /\ mainWindow = "open"
  /\ hist.starts < MaxRuns
  /\ Load < MaxLoad
  /\ \E p \in KnownIds, arg \in IterArgs :
       /\ \E w \in {World} : Becomes(continuation_start(w, p, arg))

ContinuationStop ==
  /\ mainWindow = "open"
  /\ \E p \in KnownIds, w \in {World} : Becomes(continuation_stop(w, p))

WindowClosed ==
  /\ mainWindow = "open"
  /\ \E w \in {World} : Becomes(Removed(window_closed(w), DOMAIN ptySessions, "close"))

\* app.on('activate') with no window left (macOS): createWindow()
Activate ==
  /\ mainWindow = "null"
  /\ \E w \in {World} : Becomes([w EXCEPT !.mainWindow = "open"])

Next ==
  \/ ShellSpawn
  \/ ShellKill
  \/ PtyData
  \/ PtyExit
  \/ IdleTimerFires
  \/ QuietTimerFires
  \/ ContinuationStart
  \/ ContinuationStop
  \/ WindowClosed
  \/ Activate

Spec == Init /\ [][Next]_vars

\* ---- a session that answers every write -----------------------------------
\* The agent behind the PTY answers each write of onContinue with output that
\* ends at an idle prompt and then stays quiet; it never prints a completion
\* phrase.  Nobody kills the session, stops the loop or closes the window, and a
\* loop is started only on a live session that has none.
Answers == {<<"$">>, <<"x", "$">>}
LiveIterArgs == 2..(MaxIterArg + 1)

LiveStart ==
  /\ hist.starts < MaxRuns
  /\ Load < MaxLoad
  /\ \E p \in DOMAIN ptySessions, arg \in LiveIterArgs :
       /\ p \notin DOMAIN states
       /\ \E w \in {World} : Becomes(continuation_start(w, p, arg))

\* output of the agent before the first write of the loop: it may never come
LiveOutput ==
  \E p \in DOMAIN states, data \in {<<"x">>, <<"$">>} :
    /\ runs[states[p]].continues = 0
    /\ Len(runs[states[p]].outputBuffer) + Len(data) <= MaxBuf
    /\ \E w \in {World} : Becomes(pty_onData(w, p, data))

\* the answer to a write of onContinue
LiveAnswer ==
  \E p \in DOMAIN states, data \in Answers :
    /\ runs[states[p]].continues > 0
    /\ runs[states[p]].outputBuffer = <<>>
    /\ \E w \in {World} : Becomes(pty_onData(w, p, data))

LiveNext ==
  \/ ShellSpawn
  \/ LiveStart
  \/ LiveOutput
  \/ LiveAnswer
  \/ IdleTimerFires
  \/ QuietTimerFires

\* every armed timer fires (Node's event loop), every write is answered
SpecLive ==
  /\ Init
  /\ [][LiveNext]_vars
  /\ WF_vars(QuietTimerFires)
  /\ WF_vars(LiveAnswer)

\* ---- synthesis orchestrator (ensemble:synthesis) ---------------------------
\* The handler is async: its synchronous part runs up to the first await that
\* has to wait, and each child process of a hidden run ends it in a later task.
\* Promise continuations that are ready run in the same task, so one action
\* covers an event together with every continuation it makes ready.
MaxJobs == 2         \* ensemble:synthesis calls
MaxFanout == 3       \* fan-out runs launched over all calls
MaxCountArg == 3     \* largest n argument sent
MaxFaults == 2       \* faults of the environment over all calls

SYNTH_MIN_RUNS == 1
SYNTH_MAX_RUNS == 12
SYNTH_DEFAULT_RUNS == 5

Max(a, b) == IF a >= b THEN a ELSE b

\* the state the orchestrator works on
Ens ==
  [mainWindow |-> mainWindow, jobs |-> jobs, tempRoots |-> tempRoots,
   userHome |-> userHome]

\* Faults met so far: runs that did not produce text, homes that could not be
\* made, temp roots whose removal failed, events sent to no window.
Slots(e) ==
  UNION {{<<j, i>> : i \in 1..e.jobs[j].count} : j \in 1..Len(e.jobs)}

Faults(e) ==
  Cardinality({s \in Slots(e) : e.jobs[s[1]].results[s[2]] \notin {"unset", "text"}})
  + Cardinality({s \in Slots(e) : e.jobs[s[1]].runs[s[2]] = "rejected"})
  + Cardinality({s \in Slots(e) : e.jobs[s[1]].runs[s[2]] = "settled" /\ s \in e.tempRoots})
  + Cardinality(UNION {{<<j, k>> : k \in {n \in 1..Len(e.jobs[j].events) : ~e.jobs[j].events[n].sent}} :
                         j \in 1..Len(e.jobs)})
  + Cardinality({j \in 1..Len(e.jobs) : e.jobs[j].final \notin {"none", "running", "text"}})

EnsBecomes(e) ==
  \E v \in {e} :
    /\ Faults(v) <= MaxFaults
    /\ jobs' = v.jobs
    /\ tempRoots' = v.tempRoots
    /\ userHome' = v.userHome
    /\ UNCHANGED <<coreVars, memoryVars, routerVars, spawnVars, viewVars, reply>>

\* File contents: "valid" is parseable JSON, "corrupt" is not, "backup" is the
\* parseable content of a backup file.  userHome.claudeJson is the content of
\* ~/.claude.json ("absent" when there is no such file); userHome.backups are
\* the contents of ~/.claude/backups/.claude.json.backup.*, newest first (empty
\* when there is no such directory).
isValidJsonText(content) == content \in {"valid", "backup"}

\* a variant that restores the newest valid backup over any config
ensureHealthyClaudeConfig_always(home) ==
  IF home.claudeJson = "absent" THEN home
  ELSE LET good == {i \in 1..Len(home.backups) : isValidJsonText(home.backups[i])}
       IN IF good = {} THEN home
          ELSE LET first == CHOOSE i \in good : \A k \in good : i <= k
               IN [home EXCEPT !.claudeJson = home.backups[first]]

ensureHealthyClaudeConfig(home) ==
  IF home.claudeJson = "absent" THEN home
  ELSE IF isValidJsonText(home.claudeJson) THEN home
  ELSE LET good == {i \in 1..Len(home.backups) : isValidJsonText(home.backups[i])}
       IN IF good = {} THEN home
          ELSE LET first == CHOOSE i \in good : \A k \in good : i <= k
               IN [home EXCEPT !.claudeJson = home.backups[first]]

\* n as a whole number, or NoArg when it is missing or not a finite number
ClampCount(n) ==
  IF n # NoArg
  THEN Max(SYNTH_MIN_RUNS, Min(SYNTH_MAX_RUNS, n))
  ELSE SYNTH_DEFAULT_RUNS

\* mainWindow?.webContents.send: the event is sent when there is a window
ensemble_send(e, j, event) ==
  [e EXCEPT !.jobs[j].events =
     Append(@, [ev |-> event.ev, completed |-> event.completed,
                sessionId |-> event.sessionId, sent |-> e.mainWindow = "open"])]

\* How createIsolatedClaudeHome ends: "ok"; "mkdtemp" when mkdtempSync throws;
\* "copy" when a later mkdirSync or copyFileSync throws, the temp root existing.
createIsolatedClaudeHome(e, j, i, outcome) ==
  IF outcome = "mkdtemp" THEN e
  ELSE [e EXCEPT !.tempRoots = @ \cup {<<j, i>>}]

\* isolatedHome.cleanup(): rmSync in a try/catch
cleanup(e, j, i, rmOk) ==
  IF rmOk THEN [e EXCEPT !.tempRoots = @ \ {<<j, i>>}] ELSE e

\* output of a child: "text"; "warning", only lines the sanitizer removes;
\* "blank", nothing but white space
sanitizeHiddenClaudeOutput(output) == IF output = "warning" THEN "" ELSE output

\* the string runHiddenClaudeOnce resolves with
runHiddenClaudeOnce(outcome) ==
  IF outcome.kind \in {"spawn", "error"} THEN "(runner error)"
  ELSE IF outcome.kind = "timeout" THEN "(timed out)"
  ELSE IF outcome.output # "blank"
  THEN LET cleaned == sanitizeHiddenClaudeOutput(outcome.output)
       IN IF cleaned # "" THEN cleaned ELSE "(empty)"
  ELSE IF outcome.signal THEN "(terminated)"
  ELSE IF outcome.code = 0 THEN "(empty)" ELSE "(exit code)"

\* a variant that sends the event before it counts the run
fanoutSettled_sendsBeforeCount(e, j, i, text, rmOk) ==
  LET e1 == ensemble_send(e, j, [ev |-> "ensemble:progress",
                                 completed |-> e.jobs[j].completed,
                                 sessionId |-> 0])
      e2 == [e1 EXCEPT !.jobs[j].results[i] = text,
                       !.jobs[j].completed = @ + 1,
                       !.jobs[j].runs[i] = "settled"]
  IN cleanup(e2, j, i, rmOk)

\* a variant that keeps the text of a run only when it is real output
fanoutSettled_dropsFailures(e, j, i, text, rmOk) ==
  LET e1 == [e EXCEPT !.jobs[j].results[i] = IF text = "text" THEN text ELSE @,
                      !.jobs[j].completed = @ + 1,
                      !.jobs[j].runs[i] = "settled"]
      e2 == ensemble_send(e1, j, [ev |-> "ensemble:progress",
                                  completed |-> e1.jobs[j].completed,
                                  sessionId |-> 0])
  IN cleanup(e2, j, i, rmOk)

\* the rest of one fan-out run after its await: slot, counter, event, finally
fanoutSettled(e, j, i, text, rmOk) ==
  LET e1 == [e EXCEPT !.jobs[j].results[i] = text,
                      !.jobs[j].completed = @ + 1,
                      !.jobs[j].runs[i] = "settled"]
      e2 == ensemble_send(e1, j, [ev |-> "ensemble:progress",
                                  completed |-> e1.jobs[j].completed,
                                  sessionId |-> 0])
  IN cleanup(e2, j, i, rmOk)

\* the rest of the handler after the final run: the done event and the result
finish(e, j, text) ==
  LET e1 == [e EXCEPT !.jobs[j].final = text]
      e2 == ensemble_send(e1, j, [ev |-> "ensemble:done", completed |-> 0,
                                  sessionId |-> e1.jobs[j].sessionId])
  IN [e2 EXCEPT !.jobs[j].phase = "returned", !.jobs[j].call = "resolved",
                !.jobs[j].returned = [ok |-> TRUE, count |-> e.jobs[j].count,
                                      sessionId |-> e.jobs[j].sessionId, jobId |-> j]]

\* a variant that awaits the first run to settle instead of all of them
afterFanout_anySettled(e, j, finalSpawnOk) ==
  IF e.jobs[j].phase # "fanout" \/ \A i \in 1..e.jobs[j].count : e.jobs[j].runs[i] # "settled"
  THEN e
  ELSE LET e1 == [e EXCEPT !.jobs[j].sessionId = j, !.jobs[j].phase = "final",
                           !.jobs[j].final = "running"]
       IN IF finalSpawnOk THEN e1
          ELSE finish(e1, j, runHiddenClaudeOnce([kind |-> "spawn"]))

\* the handler after await Promise.all(runs): the final run with a fresh
\* session id (crypto.randomUUID(), here the number of the job)
afterFanout(e, j, finalSpawnOk) ==
  IF e.jobs[j].phase # "fanout" \/ \E i \in 1..e.jobs[j].count : e.jobs[j].runs[i] # "settled"
  THEN e
  ELSE LET e1 == [e EXCEPT !.jobs[j].sessionId = j, !.jobs[j].phase = "final",
                           !.jobs[j].final = "running"]
       IN IF finalSpawnOk THEN e1
          ELSE finish(e1, j, runHiddenClaudeOnce([kind |-> "spawn"]))

\* runs i..count of Array.from: each async function up to its await
RECURSIVE launchRuns(_, _, _, _)
launchRuns(e, j, i, starts) ==
  IF i > e.jobs[j].count THEN e
  ELSE LET e1 == createIsolatedClaudeHome(e, j, i, IF starts[i] = "spawn" THEN "ok" ELSE starts[i])
           e2 == [e1 EXCEPT !.jobs[j].runs[i] =
                    IF starts[i] \in {"mkdtemp", "copy"} THEN "rejected" ELSE "running"]
       IN launchRuns(e2, j, i + 1, starts)

\* the runs whose spawn threw resolve at once, in the order of their index
RECURSIVE settleSpawnErrors(_, _, _, _, _)
settleSpawnErrors(e, j, i, starts, rmOk) ==
  IF i > e.jobs[j].count THEN e
  ELSE settleSpawnErrors(
         IF starts[i] = "spawn"
         THEN fanoutSettled(e, j, i, runHiddenClaudeOnce([kind |-> "spawn"]), rmOk)
         ELSE e,
         j, i + 1, starts, rmOk)

\* ipcMain.handle('ensemble:synthesis'), up to its first await that waits
ensemble_synthesis(e, dirOk, n, starts, rmOk, finalSpawnOk) ==
  IF ~dirOk THEN e
  ELSE LET count == ClampCount(n)
           j == Len(e.jobs) + 1
           job == [count |-> count, phase |-> "fanout",
                   runs |-> [i \in 1..count |-> "pending"],
                   results |-> [i \in 1..count |-> "unset"],
                   completed |-> 0, events |-> <<>>, final |-> "none",
                   sessionId |-> 0, call |-> "pending",
                   returned |-> [ok |-> FALSE, count |-> 0, sessionId |-> 0, jobId |-> 0]]
           e1 == [e EXCEPT !.userHome = ensureHealthyClaudeConfig(e.userHome),
                           !.jobs = Append(@, job)]
           e2 == ensemble_send(e1, j, [ev |-> "ensemble:progress", completed |-> 0,
                                       sessionId |-> 0])
           e3 == launchRuns(e2, j, 1, starts)
           e4 == settleSpawnErrors(e3, j, 1, starts, rmOk)
       IN IF \E i \in 1..count : e4.jobs[j].runs[i] = "rejected"
          THEN [e4 EXCEPT !.jobs[j].phase = "threw", !.jobs[j].call = "rejected"]
          ELSE afterFanout(e4, j, finalSpawnOk)

\* a child of a fan-out run ends: error event, close event or the watchdog
fanoutRunEnds(e, j, i, outcome, rmOk, finalSpawnOk) ==
  afterFanout(fanoutSettled(e, j, i, runHiddenClaudeOnce(outcome), rmOk), j, finalSpawnOk)

\* the child of the final run ends
finalRunEnds(e, j, outcome) == finish(e, j, runHiddenClaudeOnce(outcome))

\* ---- inputs of the orchestrator
StartOutcomes == {"ok", "mkdtemp", "copy", "spawn"}
ChildOutcomes ==
  {[kind |-> "error"], [kind |-> "timeout"]}
    \cup {[kind |-> "close", output |-> o, code |-> c, signal |-> FALSE] :
            o \in {"text", "warning", "blank"}, c \in {0, 1}}
    \cup {[kind |-> "close", output |-> o, code |-> -1, signal |-> TRUE] :
            o \in {"text", "warning", "blank"}}
CountArgs == 0..MaxCountArg
Launched == Cardinality(Slots(Ens))

\* homes the program can start with
Homes ==
  {[claudeJson |-> "valid", backups |-> <<>>],
   [claudeJson |-> "valid", backups |-> <<"backup">>],
   [claudeJson |-> "corrupt", backups |-> <<"corrupt">>],
   [claudeJson |-> "corrupt", backups |-> <<"corrupt", "backup">>]}

InitEnsemble ==
  /\ mainWindow = "open"
  /\ ptySessions = <<>>
  /\ idleNotifTimers = {}
  /\ sessionHadActivity = {}
  /\ states = <<>>
  /\ runs = [r \in 1..MaxRuns |-> Free]
  /\ agent_sessions = <<>>
  /\ continuation_state = <<>>
  /\ procs = [p \in PtyIds |-> "none"]
  /\ emitted = <<>>
  /\ hist = [spawned |-> {}, removed |-> [p \in PtyIds |-> "no"], starts |-> 0]
  /\ NoJobs
  /\ NoChildren
  /\ NoHiddenRun
  /\ NoAgents
  /\ userHome \in Homes
  /\ NoMemories
  /\ NoTask

EnsembleSynthesis ==
  /\ Len(jobs) < MaxJobs
  /\ \E e \in {Ens}, n \in CountArgs, dirOk \in BOOLEAN :
       /\ Launched + ClampCount(n) <= MaxFanout
       /\ \E left \in {MaxFaults - Faults(e)} :
            \E starts \in {f \in [1..ClampCount(n) -> StartOutcomes] :
                              Cardinality({i \in DOMAIN f : f[i] # "ok"}) <= left},
               rmOk \in BOOLEAN, finalSpawnOk \in BOOLEAN :
              EnsBecomes(ensemble_synthesis(e, dirOk, n, starts, rmOk, finalSpawnOk))

FanoutRunEnds ==
  \E j \in 1..Len(jobs), e \in {Ens} :
    \E i \in 1..jobs[j].count, left \in {MaxFaults - Faults(e)} :
      /\ jobs[j].runs[i] = "running"
      /\ \E outcome \in {o \in ChildOutcomes : left > 0 \/ runHiddenClaudeOnce(o) = "text"},
            rmOk \in {TRUE, left <= 0}, finalSpawnOk \in {TRUE, left <= 0} :
           EnsBecomes(fanoutRunEnds(e, j, i, outcome, rmOk, finalSpawnOk))

FinalRunEnds ==
  \E j \in 1..Len(jobs), e \in {Ens} :
    /\ jobs[j].phase = "final"
    /\ jobs[j].final = "running"
    /\ \E outcome \in {o \in ChildOutcomes :
                          Faults(e) < MaxFaults \/ runHiddenClaudeOnce(o) = "text"} :
         EnsBecomes(finalRunEnds(e, j, outcome))

EnsembleNext ==
  \/ EnsembleSynthesis
  \/ FanoutRunEnds
  \/ FinalRunEnds
  \/ WindowClosed
  \/ Activate

SpecEnsemble == InitEnsemble /\ [][EnsembleNext]_vars

\* ---- memory store (workspace_memories, memories_fts) -----------------------
\* Text is a sequence of characters.  A row is held under its id; the
\* full-text index is a bag of entries (rowid, key, content); results of
\* queries are sets of rows (no query here has more than LIMIT 10 rows).
MaxStores == 3       \* storeMemory calls (each takes one id of the sequence)

IsWordChar(c) == c \in {"a", "b", "k", "x"}

\* unicode61: tokens are the maximal runs of letters and digits
RECURSIVE fts5_tokens_from(_, _, _)
fts5_tokens_from(text, i, word) ==
  IF i > Len(text) THEN (IF word = <<>> THEN {} ELSE {word})
  ELSE IF IsWordChar(text[i]) THEN fts5_tokens_from(text, i + 1, Append(word, text[i]))
  ELSE (IF word = <<>> THEN {} ELSE {word}) \cup fts5_tokens_from(text, i + 1, <<>>)

fts5_tokens(text) == fts5_tokens_from(text, 1, <<>>)

\* How the engine takes a MATCH argument: a quote that is not closed is the
\* error "unterminated string"; a character that is neither part of a bareword
\* nor white space, and an argument without any term, is "fts5: syntax error
\* near ..."; otherwise the terms are the barewords, all of which must occur.
fts5_parse(query) ==
  IF Cardinality({i \in 1..Len(query) : query[i] = "\""}) % 2 = 1
  THEN [error |-> "unterminated string", terms |-> {}]
  ELSE IF \E i \in 1..Len(query) : ~IsWordChar(query[i]) /\ query[i] \notin {" ", "\""}
  THEN [error |-> "fts5: syntax error", terms |-> {}]
  ELSE IF fts5_tokens(query) = {}
  THEN [error |-> "fts5: syntax error", terms |-> {}]
  ELSE [error |-> "", terms |-> fts5_tokens(query)]

\* INSERT INTO memories_fts(rowid, key, content)
fts_insert(fts, entry) ==
  IF entry \in DOMAIN fts THEN [fts EXCEPT ![entry] = @ + 1] ELSE fts @@ (entry :> 1)

\* INSERT INTO memories_fts(memories_fts, rowid, key, content) VALUES ('delete', ...)
fts_delete(fts, entry) ==
  IF entry \notin DOMAIN fts THEN fts
  ELSE IF fts[entry] > 1 THEN [fts EXCEPT ![entry] = @ - 1]
  ELSE [x \in DOMAIN fts \ {entry} |-> fts[x]]

FtsEntry(id, row) == [rowid |-> id, key |-> row.key, content |-> row.content]

\* the store as the statements see it
Store == [workspace_memories |-> workspace_memories, memories_fts |-> memories_fts]

RowIds(db, workspaceId, key) ==
  {id \in DOMAIN db.workspace_memories.rows :
     /\ db.workspace_memories.rows[id].workspace_id = workspaceId
     /\ db.workspace_memories.rows[id].key = key}

\* a variant of the conflict update whose trigger does not take out the old entry
stmt_storeMemory_noDelete(db, workspaceId, key, content, category) ==
  LET hit == RowIds(db, workspaceId, key)
      id == db.workspace_memories.sqlite_sequence + 1
      new == [workspace_id |-> workspaceId, key |-> key, content |-> content,
              category |-> category]
  IN IF hit = {}
     THEN [workspace_memories |->
             [rows |-> db.workspace_memories.rows @@ (id :> new), sqlite_sequence |-> id],
           memories_fts |-> fts_insert(db.memories_fts, FtsEntry(id, new))]
     ELSE LET old == CHOOSE i \in hit : TRUE
          IN [workspace_memories |->
                [rows |-> [db.workspace_memories.rows EXCEPT ![old] = new],
                 sqlite_sequence |-> id],
              memories_fts |-> fts_insert(db.memories_fts, FtsEntry(old, new))]

\* a variant that inserts a second row on a conflict
stmt_storeMemory_noConflict(db, workspaceId, key, content, category) ==
  LET id == db.workspace_memories.sqlite_sequence + 1
      new == [workspace_id |-> workspaceId, key |-> key, content |-> content,
              category |-> category]
  IN [workspace_memories |->
        [rows |-> db.workspace_memories.rows @@ (id :> new), sqlite_sequence |-> id],
      memories_fts |-> fts_insert(db.memories_fts, FtsEntry(id, new))]

\* stmts.storeMemory with the triggers memories_ai and memories_au.  The
\* insert takes the next id of the sequence, also when it ends in a conflict.
stmt_storeMemory(db, workspaceId, key, content, category) ==
  LET hit == RowIds(db, workspaceId, key)
      id == db.workspace_memories.sqlite_sequence + 1
      new == [workspace_id |-> workspaceId, key |-> key, content |-> content,
              category |-> category]
  IN IF hit = {}
     THEN [workspace_memories |->
             [rows |-> db.workspace_memories.rows @@ (id :> new), sqlite_sequence |-> id],
           memories_fts |-> fts_insert(db.memories_fts, FtsEntry(id, new))]
     ELSE LET old == CHOOSE i \in hit : TRUE
              was == db.workspace_memories.rows[old]
          IN [workspace_memories |->
                [rows |-> [db.workspace_memories.rows EXCEPT ![old] = new],
                 sqlite_sequence |-> id],
              memories_fts |->
                fts_insert(fts_delete(db.memories_fts, FtsEntry(old, was)),
                           FtsEntry(old, new))]

\* stmts.deleteMemory with the trigger memories_ad
RECURSIVE delete_rows(_, _)
delete_rows(db, ids) ==
  IF ids = {} THEN db
  ELSE LET id == CHOOSE i \in ids : TRUE
           was == db.workspace_memories.rows[id]
       IN delete_rows(
            [workspace_memories |->
               [db.workspace_memories EXCEPT
                  !.rows = [x \in DOMAIN db.workspace_memories.rows \ {id} |->
                              db.workspace_memories.rows[x]]],
             memories_fts |-> fts_delete(db.memories_fts, FtsEntry(id, was))],
            ids \ {id})

stmt_deleteMemory(db, workspaceId, key) == delete_rows(db, RowIds(db, workspaceId, key))

MemoryRow(db, id) ==
  [id |-> id, key |-> db.workspace_memories.rows[id].key,
   content |-> db.workspace_memories.rows[id].content,
   category |-> db.workspace_memories.rows[id].category]

\* stmts.searchMemoryFts: the rows of the workspace joined to an index entry
\* of their id in which every term of the query occurs
stmt_searchMemoryFts(db, workspaceId, terms) ==
  {MemoryRow(db, id) : id \in
     {i \in DOMAIN db.workspace_memories.rows :
        /\ db.workspace_memories.rows[i].workspace_id = workspaceId
        /\ \E f \in DOMAIN db.memories_fts :
             /\ f.rowid = i
             /\ terms \subseteq (fts5_tokens(f.key) \cup fts5_tokens(f.content))}}

\* escapeLike: a backslash before each backslash, % and _
RECURSIVE escapeLike(_)
escapeLike(s) ==
  IF s = <<>> THEN <<>>
  ELSE (IF s[1] \in {"\\", "%", "_"} THEN <<"\\", s[1]>> ELSE <<s[1]>>) \o escapeLike(Tail(s))

\* text LIKE pattern ESCAPE '\'
RECURSIVE Like(_, _)
Like(pattern, text) ==
  IF pattern = <<>> THEN text = <<>>
  ELSE IF pattern[1] = "%"
  THEN \E k \in 0..Len(text) : Like(Tail(pattern), SubSeq(text, k + 1, Len(text)))
  ELSE IF pattern[1] = "_"
  THEN text # <<>> /\ Like(Tail(pattern), Tail(text))
  ELSE IF pattern[1] = "\\" /\ Len(pattern) >= 2
  THEN text # <<>> /\ text[1] = pattern[2]
       /\ Like(SubSeq(pattern, 3, Len(pattern)), Tail(text))
  ELSE text # <<>> /\ text[1] = pattern[1] /\ Like(Tail(pattern), Tail(text))

\* stmts.searchMemoryLike
stmt_searchMemoryLike(db, workspaceId, pattern) ==
  {MemoryRow(db, id) : id \in
     {i \in DOMAIN db.workspace_memories.rows :
        /\ db.workspace_memories.rows[i].workspace_id = workspaceId
        /\ \/ Like(pattern, db.workspace_memories.rows[i].key)
           \/ Like(pattern, db.workspace_memories.rows[i].content)}}

\* stmts.listMemories and stmts.listMemoriesByCategory
stmt_listMemories(db, workspaceId) ==
  {MemoryRow(db, id) : id \in
     {i \in DOMAIN db.workspace_memories.rows :
        db.workspace_memories.rows[i].workspace_id = workspaceId}}

stmt_listMemoriesByCategory(db, workspaceId, category) ==
  {r \in stmt_listMemories(db, workspaceId) : r.category = category}

\* storeMemory(workspaceId, key, content, category = 'core')
storeMemory(db, workspaceId, key, content, category) ==
  stmt_storeMemory(db, workspaceId, key, content,
                   IF category = "undefined" THEN "core" ELSE category)

deleteMemory(db, workspaceId, key) == stmt_deleteMemory(db, workspaceId, key)

\* searchMemory; engine is an error of the engine itself ("" when it works)
searchMemory(db, workspaceId, query, engine) ==
  LET parsed == fts5_parse(query)
      message == IF engine # "" THEN engine ELSE parsed.error
      ftsResults == stmt_searchMemoryFts(db, workspaceId, parsed.terms)
      like == stmt_searchMemoryLike(db, workspaceId, <<"%">> \o escapeLike(query) \o <<"%">>)
  IN IF message = "" /\ Cardinality(ftsResults) > 0
     THEN [op |-> "search", workspaceId |-> workspaceId, query |-> query,
           fts |-> "rows", like |-> FALSE, threw |-> FALSE, rows |-> ftsResults]
     ELSE IF message = ""
     THEN [op |-> "search", workspaceId |-> workspaceId, query |-> query,
           fts |-> "rows", like |-> TRUE, threw |-> FALSE, rows |-> like]
     ELSE IF message # "fts5: syntax error"
     THEN [op |-> "search", workspaceId |-> workspaceId, query |-> query,
           fts |-> message, like |-> FALSE, threw |-> TRUE, rows |-> {}]
     ELSE [op |-> "search", workspaceId |-> workspaceId, query |-> query,
           fts |-> message, like |-> TRUE, threw |-> FALSE, rows |-> like]

\* listMemories(workspaceId, category?)
listMemories(db, workspaceId, category) ==
  [op |-> "list", workspaceId |-> workspaceId, category |-> category,
   rows |-> IF category \notin {"undefined", ""}
            THEN stmt_listMemoriesByCategory(db, workspaceId, category)
            ELSE stmt_listMemories(db, workspaceId)]

\* ---- inputs of the memory store
Workspaces == {"w1", "w2"}
MemoryKeys == {<<"k">>, <<"a", "k">>}
Contents == {<<"a", "b">>, <<"a", " ", "b">>}
Categories == {"undefined", "note"}
Queries == {<<"b">>, <<"k">>, <<"%">>, <<"\"", "a">>}
EngineErrors == {"", "database is locked"}

MemoryBecomes(db) ==
  \E v \in {db} :
    /\ workspace_memories' = v.workspace_memories
    /\ memories_fts' = v.memories_fts

InitMemory ==
  /\ mainWindow = "open"
  /\ ptySessions = <<>>
  /\ idleNotifTimers = {}
  /\ sessionHadActivity = {}
  /\ states = <<>>
  /\ runs = [r \in 1..MaxRuns |-> Free]
  /\ agent_sessions = <<>>
  /\ continuation_state = <<>>
  /\ procs = [p \in PtyIds |-> "none"]
  /\ emitted = <<>>
  /\ hist = [spawned |-> {}, removed |-> [p \in PtyIds |-> "no"], starts |-> 0]
  /\ NoJobs
  /\ NoChildren
  /\ NoHiddenRun
  /\ NoAgents
  /\ userHome = [claudeJson |-> "valid", backups |-> <<>>]
  /\ NoMemories
  /\ NoTask

MemoryStore ==
  /\ workspace_memories.sqlite_sequence < MaxStores
  /\ \E w \in Workspaces, k \in MemoryKeys, c \in Contents, cat \in Categories, db \in {Store} :
       /\ MemoryBecomes(storeMemory(db, w, k, c, cat))
       /\ memLast' = [x \in DOMAIN memLast \cup {<<w, k>>} |->
                        IF x = <<w, k>>
                        THEN [op |-> "store", content |-> c, category |-> cat]
                        ELSE memLast[x]]
       /\ reply' = [op |-> "store", ok |-> TRUE]
       /\ UNCHANGED <<coreVars, ensembleVars, routerVars, spawnVars, viewVars>>

MemoryDelete ==
  \E w \in Workspaces, k \in MemoryKeys, db \in {Store} :
    /\ MemoryBecomes(deleteMemory(db, w, k))
    /\ memLast' = [x \in DOMAIN memLast \cup {<<w, k>>} |->
                     IF x = <<w, k>>
                     THEN [op |-> "delete", content |-> <<>>, category |-> ""]
                     ELSE memLast[x]]
    /\ reply' = [op |-> "delete", ok |-> TRUE]
    /\ UNCHANGED <<coreVars, ensembleVars, routerVars, spawnVars, viewVars>>

MemorySearch ==
  \E w \in Workspaces, q \in Queries, engine \in EngineErrors, db \in {Store} :
    /\ reply' = searchMemory(db, w, q, engine)
    /\ UNCHANGED <<coreVars, ensembleVars, memoryVars, routerVars, spawnVars, viewVars>>

MemoryList ==
  \E w \in Workspaces, cat \in Categories, db \in {Store} :
    /\ reply' = listMemories(db, w, cat)
    /\ UNCHANGED <<coreVars, ensembleVars, memoryVars, routerVars, spawnVars, viewVars>>

MemoryNext ==
  \/ MemoryStore
  \/ MemoryDelete
  \/ MemorySearch
  \/ MemoryList

SpecMemory == InitMemory /\ [][MemoryNext]_vars

\* ---- task router (routeTask) ----------------------------------------------
\* A description is a sequence of lower-case words, each one a pair of a stem
\* and an ending (<<"component", "s">> is "components"), separated by single
\* spaces.  The pattern /\bw1 w2/i is held as the words <<w1, w2>>; wordEnd
\* says that it ends with \b.
MaxWords == 4        \* words of a description

\* Weights are IEEE-754 doubles and += rounds to nearest, ties to even.  A
\* double d is held as [t, r, lo] with 10 * d * 2^56 = t * 2^56 + r (t the
\* tenths, r what the double is off by) and lo = d * 2^56 mod 256.
Double(tenths) ==
  CASE tenths = 0 -> [t |-> 0, r |-> 0, lo |-> 0]
    [] tenths = 4 -> [t |-> 4, r |-> 16, lo |-> 104]
    [] tenths = 5 -> [t |-> 5, r |-> 0, lo |-> 0]
    [] tenths = 6 -> [t |-> 6, r |-> -16, lo |-> 152]
    [] tenths = 7 -> [t |-> 7, r |-> -32, lo |-> 48]
    [] tenths = 8 -> [t |-> 8, r |-> 32, lo |-> 208]
    [] tenths = 9 -> [t |-> 9, r |-> 16, lo |-> 104]
    [] tenths = 10 -> [t |-> 10, r |-> 0, lo |-> 0]

\* a > b on doubles
DoubleGreater(a, b) == a.t > b.t \/ (a.t = b.t /\ a.r > b.r)

\* a variant that adds without rounding error
DoubleAdd_exact(a, b) == [t |-> a.t + b.t, r |-> 0, lo |-> 0]

\* a + b on doubles: the exact sum rounded to the spacing of its binade
DoubleAdd(a, b) ==
  LET T == a.t + b.t
      R == a.r + b.r
      LO == (a.lo + b.lo) % 256
      atLeast(k) == T > k \/ (T = k /\ R >= 0)
      u == IF atLeast(80) THEN 128 ELSE IF atLeast(40) THEN 64
           ELSE IF atLeast(20) THEN 32 ELSE IF atLeast(10) THEN 16
           ELSE IF atLeast(5) THEN 8 ELSE 4
      rem == LO % u
      d == IF rem = 0 THEN 0
           ELSE IF 2 * rem < u THEN 0 - rem
           ELSE IF 2 * rem > u THEN u - rem
           ELSE IF ((LO - rem) \div u) % 2 = 0 THEN 0 - rem ELSE u - rem
  IN [t |-> T, r |-> R + 10 * d, lo |-> (LO + d) % 256]

K(words, wordEnd, tenths) ==
  [pattern |-> words, wordEnd |-> wordEnd, weight |-> Double(tenths)]

RULES ==
  <<
    [keywords |-> <<
        K(<<"architect">>, FALSE, 10),
        K(<<"plan">>, TRUE, 8),
        K(<<"review">>, TRUE, 6),
        K(<<"analyze">>, FALSE, 8),
        K(<<"complex">>, FALSE, 7),
        K(<<"refactor">>, FALSE, 9),
        K(<<"why">>, TRUE, 5),
        K(<<"how", "does">>, TRUE, 5),
        K(<<"design", "system">>, FALSE, 7),
        K(<<"system", "design">>, FALSE, 9)>>,
     cli |-> "claude", category |-> "deep",
     rationale |-> "Claude for deep planning and architecture analysis"],
    [keywords |-> <<
        K(<<"frontend">>, FALSE, 10),
        K(<<"ui">>, TRUE, 9),
        K(<<"ux">>, TRUE, 9),
        K(<<"css">>, TRUE, 10),
        K(<<"html">>, TRUE, 7),
        K(<<"component">>, FALSE, 8),
        K(<<"react">>, TRUE, 7),
        K(<<"vue">>, TRUE, 7),
        K(<<"angular">>, TRUE, 7),
        K(<<"tailwind">>, FALSE, 9),
        K(<<"visual">>, FALSE, 8),
        K(<<"design">>, TRUE, 4),
        K(<<"layout">>, FALSE, 9),
        K(<<"style">>, FALSE, 8)>>,
     cli |-> "gemini", category |-> "visual",
     rationale |-> "Gemini for visual/frontend specialization"],
    [keywords |-> <<
        K(<<"complete">>, FALSE, 7),
        K(<<"autocomplete">>, FALSE, 9),
        K(<<"boilerplate">>, FALSE, 9),
        K(<<"scaffold">>, FALSE, 8),
        K(<<"generate">>, TRUE, 6),
        K(<<"snippet">>, FALSE, 8),
        K(<<"quick", "fix">>, FALSE, 7)>>,
     cli |-> "codex", category |-> "code",
     rationale |-> "Codex for rapid code generation and completion"],
    [keywords |-> <<
        K(<<"commit">>, FALSE, 10),
        K(<<"pr">>, TRUE, 9),
        K(<<"pull", "request">>, FALSE, 10),
        K(<<"github">>, FALSE, 9),
        K(<<"branch">>, FALSE, 8),
        K(<<"merge">>, FALSE, 8),
        K(<<"git">>, TRUE, 10),
        K(<<"review", "pr">>, FALSE, 10)>>,
     cli |-> "copilot", category |-> "git",
     rationale |-> "Copilot for GitHub-integrated workflows"],
    [keywords |-> <<
        K(<<"private">>, FALSE, 9),
        K(<<"local">>, TRUE, 8),
        K(<<"offline">>, FALSE, 10),
        K(<<"confidential">>, FALSE, 10),
        K(<<"sensitive">>, FALSE, 9),
        K(<<"no", "cloud">>, FALSE, 10)>>,
     cli |-> "llm", category |-> "local",
     rationale |-> "Local LLM for private/offline work"],
    [keywords |-> <<
        K(<<"docs">>, TRUE, 8),
        K(<<"documentation">>, FALSE, 9),
        K(<<"search">>, TRUE, 5),
        K(<<"look", "up">>, FALSE, 7),
        K(<<"explain">>, FALSE, 8),
        K(<<"what", "is">>, FALSE, 7)>>,
     cli |-> "claude", category |-> "research",
     rationale |-> "Claude for research and documentation lookup"],
    [keywords |-> <<
        K(<<"fix", "bug">>, FALSE, 10),
        K(<<"debug">>, FALSE, 10),
        K(<<"error">>, TRUE, 7),
        K(<<"crash">>, FALSE, 9),
        K(<<"traceback">>, FALSE, 9),
        K(<<"exception">>, FALSE, 8)>>,
     cli |-> "claude", category |-> "deep",
     rationale |-> "Claude for debugging with extended reasoning"],
    [keywords |-> <<
        K(<<"test">>, TRUE, 7),
        K(<<"unit", "test">>, FALSE, 10),
        K(<<"integration", "test">>, FALSE, 10),
        K(<<"spec">>, TRUE, 6),
        K(<<"jest">>, TRUE, 9),
        K(<<"vitest">>, TRUE, 9),
        K(<<"pytest">>, TRUE, 9)>>,
     cli |-> "codex", category |-> "code",
     rationale |-> "Codex for test generation"]
  >>

\* kw.pattern.test(description)
test(kw, description) ==
  LET n == Len(kw.pattern)
  IN \E i \in 1..(Len(description) - n + 1) :
       /\ \A j \in 1..(n - 1) : description[i + j - 1] = <<kw.pattern[j], "">>
       /\ description[i + n - 1][1] = kw.pattern[n]
       /\ kw.wordEnd => description[i + n - 1][2] = ""

defaultCategoryForCli(cli) ==
  CASE cli = "gemini" -> "visual"
    [] cli = "codex" -> "code"
    [] cli = "copilot" -> "git"
    [] cli = "llm" -> "local"
    [] cli = "qwen" -> "quick"
    [] OTHER -> "deep"

\* the inner loop from keyword i on: totalWeight and matchedWeight
RECURSIVE weigh(_, _, _, _)
weigh(rule, description, i, sums) ==
  IF i > Len(rule.keywords) THEN sums
  ELSE LET kw == rule.keywords[i]
       IN weigh(rule, description, i + 1,
                [totalWeight |-> DoubleAdd(sums.totalWeight, kw.weight),
                 matchedWeight |-> IF test(kw, description)
                                   THEN DoubleAdd(sums.matchedWeight, kw.weight)
                                   ELSE sums.matchedWeight])

\* the outer loop from rule i on.  confidence is held as the two doubles whose
\* quotient it is; matchedWeight never exceeds totalWeight, so Math.min(.., 1.0)
\* leaves the quotient as it is.
RECURSIVE scan(_, _, _)
scan(description, i, best) ==
  IF i > Len(RULES) THEN best
  ELSE LET rule == RULES[i]
           sums == weigh(rule, description, 1,
                         [totalWeight |-> Double(0), matchedWeight |-> Double(0)])
       IN scan(description, i + 1,
               IF /\ DoubleGreater(sums.matchedWeight, Double(0))
                  /\ DoubleGreater(sums.matchedWeight, best.bestScore)
               THEN [bestScore |-> sums.matchedWeight, found |-> TRUE,
                     bestMatch |-> [cli |-> rule.cli, category |-> rule.category,
                                    rationale |-> rule.rationale,
                                    confidence |-> <<sums.matchedWeight, sums.totalWeight>>]]
               ELSE best)

routeTask(description, preferredCli) ==
  IF preferredCli \notin {"undefined", "null"}
  THEN [cli |-> preferredCli, category |-> defaultCategoryForCli(preferredCli),
        rationale |-> "Manual override", confidence |-> <<Double(10), Double(10)>>]
  ELSE LET best == scan(description, 1,
                        [bestScore |-> Double(0), found |-> FALSE,
                         bestMatch |-> [cli |-> "claude", category |-> "deep",
                                        rationale |-> "Claude as default general-purpose agent",
                                        confidence |-> <<Double(5), Double(10)>>]])
       IN best.bestMatch

\* ---- inputs of the router
Vocabulary ==
  {<<"architect", "">>, <<"architect", "ure">>, <<"complex", "">>, <<"ui", "">>,
   <<"component", "s">>, <<"plan", "">>, <<"plan", "s">>, <<"design", "">>,
   <<"system", "">>, <<"hello", "">>}
Descriptions == UNION {[1..n -> Vocabulary] : n \in 0..MaxWords}
PreferredClis == {"undefined", "null", "gemini", "qwen"}

InitRouter ==
  /\ mainWindow = "open"
  /\ ptySessions = <<>>
  /\ idleNotifTimers = {}
  /\ sessionHadActivity = {}
  /\ states = <<>>
  /\ runs = [r \in 1..MaxRuns |-> Free]
  /\ agent_sessions = <<>>
  /\ continuation_state = <<>>
  /\ procs = [p \in PtyIds |-> "none"]
  /\ emitted = <<>>
  /\ hist = [spawned |-> {}, removed |-> [p \in PtyIds |-> "no"], starts |-> 0]
  /\ NoJobs
  /\ NoChildren
  /\ NoHiddenRun
  /\ NoAgents
  /\ userHome = [claudeJson |-> "valid", backups |-> <<>>]
  /\ NoMemories
  /\ task \in Descriptions
  /\ reply = [op |-> "none"]

\* ipcMain.handle('agent:route')
AgentRoute ==
  /\ reply.op = "none"
  /\ \E preferredCli \in PreferredClis :
       reply' = [op |-> "route", preferredCli |-> preferredCli,
                 result |-> routeTask(task, preferredCli)]
  /\ UNCHANGED <<coreVars, ensembleVars, memoryVars, routerVars, spawnVars, viewVars>>

RouterNext == AgentRoute

SpecRouter == InitRouter /\ [][RouterNext]_vars

\* ---- shell:spawn with all its arguments --------------------------------------
\* A string is a sequence of characters, " " standing for whitespace.  An
\* optional argument is <<>> when it is left out and <<v>> when it is v.
MaxSpawns == 1

ENV_ALLOWLIST ==
  {"PATH", "HOME", "USER", "LOGNAME", "SHELL", "LANG", "LC_ALL", "LC_CTYPE",
   "TERM", "COLORTERM", "DISPLAY", "WAYLAND_DISPLAY", "XDG_RUNTIME_DIR",
   "XDG_DATA_HOME", "XDG_CONFIG_HOME", "XDG_CACHE_HOME",
   "WSLENV", "WSL_DISTRO_NAME", "WSL_INTEROP",
   "SYSTEMROOT", "SYSTEMDRIVE", "WINDIR", "APPDATA", "LOCALAPPDATA",
   "PROGRAMFILES", "PROGRAMFILES(X86)", "COMMONPROGRAMFILES",
   "TEMP", "TMP", "USERPROFILE", "HOMEDRIVE", "HOMEPATH",
   "NUMBER_OF_PROCESSORS", "PROCESSOR_ARCHITECTURE", "OS", "COMSPEC",
   "PSModulePath"}

\* (mutant) the whole environment of the parent is handed on
getSanitizedEnv_copiesAll(env0) ==
  LET env1 == MapSet(env0, "TERM", "xterm-256color")
      env2 == MapSet(env1, "COLORTERM", "truecolor")
  IN MapSet(env2, "LANG",
            IF "LANG" \in DOMAIN env2 /\ env2["LANG"] # "" THEN env2["LANG"]
            ELSE "en_US.UTF-8")

\* getSanitizedEnv(), with process.env = env0: a key is copied when its value
\* is truthy, i.e. not the empty string
getSanitizedEnv(env0) ==
  LET copied == {key \in ENV_ALLOWLIST \cap DOMAIN env0 : env0[key] # ""}
      env  == [key \in copied |-> env0[key]]
      env1 == MapSet(env, "TERM", "xterm-256color")
      env2 == MapSet(env1, "COLORTERM", "truecolor")
  IN MapSet(env2, "LANG",
            IF "LANG" \in DOMAIN env2 /\ env2["LANG"] # "" THEN env2["LANG"]
            ELSE "en_US.UTF-8")

\* String.prototype.trim
trim(str) ==
  LET ink == {i \in 1..Len(str) : str[i] # " "}
  IN IF ink = {} THEN <<>>
     ELSE SubSeq(str, CHOOSE i \in ink : \A j \in ink : i <= j,
                      CHOOSE i \in ink : \A j \in ink : i >= j)

\* the four constants that shell:spawn computes from its arguments; goalStr is
\* <<>> for undefined
spawnFlags(cliType, goal, oneShotLoop, shellSession, resumeSessionId) ==
  LET goalStr == IF goal # <<>> /\ trim(goal[1]) # <<>> THEN <<trim(goal[1])>> ELSE <<>>
  IN [goalStr |-> goalStr,
      useShellSession |-> shellSession = <<TRUE>>,
      useResumeSession |-> /\ cliType = "claude"
                           /\ resumeSessionId # <<>>
                           /\ trim(resumeSessionId[1]) # <<>>,
      useOneShotLoop |-> /\ oneShotLoop = <<TRUE>>
                         /\ goalStr # <<>>
                         /\ cliType = "claude"]

\* (mutant) the shell session is looked at before the one-shot loop
spawnSpec_shellFirst(f) ==
  IF f.useShellSession THEN "getPersistentInteractiveShellCommand"
  ELSE IF f.useOneShotLoop THEN "getOneShotRunnerCommand"
  ELSE IF f.useResumeSession THEN "getClaudeResumeCommand"
  ELSE "getCliCommand"

\* spawnSpec: the function that builds the command line of the child
spawnSpec(f) ==
  IF f.useOneShotLoop THEN "getOneShotRunnerCommand"
  ELSE IF f.useShellSession THEN "getPersistentInteractiveShellCommand"
  ELSE IF f.useResumeSession THEN "getClaudeResumeCommand"
  ELSE "getCliCommand"

\* the callback of the goal timer: ptyProcess.write(goalStr + ENTER_KEY) on the
\* child that the closure holds; an exception of the write is swallowed
goalTimerCallback(w, ptyId) ==
  Emit(Emit(w, Event("goalTimer", ptyId, 0)), Event("pty.write", ptyId, 0))

\* process.env of the main process
ParentEnvs ==
  {<<>>,
   [PATH |-> "/usr/bin", LANG |-> "de_DE.UTF-8", TERM |-> "dumb",
    COLORTERM |-> "24bit", NODE_OPTIONS |-> "--inspect"],
   [PATH |-> "/usr/bin", LANG |-> "", HOME |-> "", ANTHROPIC_API_KEY |-> "sk"],
   [LANG |-> "C", ELECTRON_RUN_AS_NODE |-> "1", SHELL |-> "/bin/sh"]}

InitSpawn ==
  /\ NoJobs
  /\ userHome = [claudeJson |-> "valid", backups |-> <<>>]
  /\ NoMemories
  /\ NoTask
  /\ mainWindow = "open"
  /\ ptySessions = <<>>
  /\ idleNotifTimers = {}
  /\ sessionHadActivity = {}
  /\ states = <<>>
  /\ runs = [r \in 1..MaxRuns |-> Free]
  /\ agent_sessions = <<>>
  /\ continuation_state = <<>>
  /\ procs = [p \in PtyIds |-> "none"]
  /\ emitted = <<>>
  /\ hist = [spawned |-> {}, removed |-> [p \in PtyIds |-> "no"], starts |-> 0]
  /\ processEnv \in ParentEnvs
  /\ children = <<>>
  /\ goalTimers = <<>>
  /\ NoHiddenRun
  /\ NoAgents

\* ipcMain.handle('shell:spawn') with its arguments: the child is created with
\* spawnSpec and the sanitized environment, and the goal timer is set at the
\* end of a spawn that got that far
SpawnWithArgs ==
  /\ mainWindow = "open"
  /\ NextPtyId <= MaxSpawns
  /\ \E cliType \in {"claude", "codex"},
        goal \in {<<>>, <<<<" ">>>>, <<<<" ", "g">>>>},
        oneShotLoop \in {<<>>, <<FALSE>>, <<TRUE>>},
        shellSession \in {<<>>, <<FALSE>>, <<TRUE>>},
        resumeSessionId \in {<<>>, <<<<" ">>>>, <<<<"r", " ">>>>},
        ptyOk \in BOOLEAN, workspaceKnown \in BOOLEAN :
       \E f \in {spawnFlags(cliType, goal, oneShotLoop, shellSession, resumeSessionId)},
          ptyId \in {NextPtyId} :
        \E timer \in {/\ ptyOk /\ workspaceKnown
                      /\ f.goalStr # <<>> /\ ~f.useOneShotLoop
                      /\ ~f.useShellSession /\ ~f.useResumeSession} :
         /\ \E w \in {World} :
              CoreBecomes(shell_spawn(w, ptyId, ptyOk, workspaceKnown, f.useOneShotLoop))
         /\ children' =
              IF ptyOk
              THEN MapSet(children, ptyId,
                          [cliType |-> cliType, goal |-> goal, oneShotLoop |-> oneShotLoop,
                           shellSession |-> shellSession,
                           resumeSessionId |-> resumeSessionId,
                           spawnSpec |-> spawnSpec(f), env |-> getSanitizedEnv(processEnv),
                           goalTimer |-> timer])
              ELSE children
         /\ goalTimers' =
              IF timer THEN MapSet(goalTimers, ptyId, f.goalStr[1])
              ELSE goalTimers
         /\ UNCHANGED <<ensembleVars, memoryVars, routerVars, processEnv, viewVars, reply>>

GoalTimerFires ==
  \E p \in DOMAIN goalTimers :
    /\ \E w \in {World} : CoreBecomes(goalTimerCallback(w, p))
    /\ goalTimers' = MapDelete(goalTimers, p)
    /\ UNCHANGED <<ensembleVars, memoryVars, routerVars, processEnv, viewVars, children, reply>>

\* continuation:start with any maxIterations, in halves: negative, zero, a
\* half, whole numbers, beyond the cap, and NoArg
StartWithArg ==
  /\ mainWindow = "open"
  /\ hist.starts < MaxRuns
  /\ \E p \in KnownIds,
        arg \in {NoArg, -2, 0, 1, 2, 3, Half(MAX_ITERATIONS_CAP),
                 Half(MAX_ITERATIONS_CAP) + 1, Half(MAX_ITERATIONS_CAP) + 2} :
       \E w \in {World} : Becomes(continuation_start(w, p, arg))

SpawnNext ==
  \/ SpawnWithArgs
  \/ ShellKill
  \/ PtyExit
  \/ GoalTimerFires
  \/ StartWithArg

SpecSpawn == InitSpawn /\ [][SpawnNext]_vars

\* ---- one hidden run, event by event ---------------------------------------
\* hidden.child is "unspawned", "failed" (spawnChild threw), "running" or
\* "closed"; hidden.timeout is the watchdog: "none", "pending", "cleared" or
\* "fired"; hidden.resolved holds the arguments of the calls of resolve, in
\* order; hidden.kills counts child.kill(); hidden.seen holds the events
\* delivered so far, each with the string it stands for.
MaxChunks == 2

\* what output.trim() and the sanitizer see: text when a chunk has text, else
\* warning lines only, else white space
outputKind(chunks) ==
  IF \E i \in 1..Len(chunks) : chunks[i] = "text" THEN "text"
  ELSE IF \E i \in 1..Len(chunks) : chunks[i] = "warning" THEN "warning"
  ELSE "blank"

HiddenBecomes(h) ==
  /\ hidden' = h
  /\ UNCHANGED <<coreVars, ensembleVars, memoryVars, routerVars, spawnVars, agents, reply>>

\* runHiddenClaudeOnce up to the registration of the handlers
HiddenSpawn ==
  /\ hidden.child = "unspawned"
  /\ \E spawnOk \in BOOLEAN :
       HiddenBecomes(IF spawnOk
                     THEN [hidden EXCEPT !.child = "running", !.timeout = "pending"]
                     ELSE [hidden EXCEPT !.child = "failed",
                                         !.resolved = Append(@, runHiddenClaudeOnce([kind |-> "spawn"]))])

\* child.stdout / child.stderr 'data'
HiddenData ==
  /\ hidden.child = "running"
  /\ Len(hidden.output) < MaxChunks
  /\ \E d \in {"text", "warning", "blank"} :
       HiddenBecomes([hidden EXCEPT !.output = Append(@, d)])

\* the callback of the watchdog
WatchdogFires ==
  /\ hidden.timeout = "pending"
  /\ \E text \in {runHiddenClaudeOnce([kind |-> "timeout"])} :
       \E h \in {[hidden EXCEPT !.timeout = "fired",
                                !.seen = Append(@, [kind |-> "timeout", result |-> text])]} :
         HiddenBecomes(IF h.finished THEN h
                       ELSE [h EXCEPT !.finished = TRUE,
                                      !.kills = @ + 1,
                                      !.resolved = Append(@, text)])

\* child.on('error')
ChildError ==
  /\ hidden.child = "running"
  /\ ~hidden.errored
  /\ \E text \in {runHiddenClaudeOnce([kind |-> "error"])} :
       \E h \in {[hidden EXCEPT !.errored = TRUE,
                                !.seen = Append(@, [kind |-> "error", result |-> text])]} :
         HiddenBecomes(IF h.finished THEN h
                       ELSE [h EXCEPT !.finished = TRUE,
                                      !.timeout = IF @ = "pending" THEN "cleared" ELSE @,
                                      !.resolved = Append(@, text)])

\* (mutant) the close handler does not look at finished
ChildClose_noGuard ==
  /\ hidden.child = "running"
  /\ \E exit \in {[code |-> 0, signal |-> FALSE], [code |-> 1, signal |-> FALSE],
                  [code |-> -1, signal |-> TRUE]} :
       \E text \in {runHiddenClaudeOnce([kind |-> "close", output |-> outputKind(hidden.output),
                                         code |-> exit.code, signal |-> exit.signal])} :
         HiddenBecomes([hidden EXCEPT !.child = "closed",
                                      !.seen = Append(@, [kind |-> "close", result |-> text]),
                                      !.finished = TRUE,
                                      !.timeout = IF @ = "pending" THEN "cleared" ELSE @,
                                      !.resolved = Append(@, text)])

\* child.on('close'): the last event of a child
ChildClose ==
  /\ hidden.child = "running"
  /\ \E exit \in {[code |-> 0, signal |-> FALSE], [code |-> 1, signal |-> FALSE],
                  [code |-> -1, signal |-> TRUE]} :
       \E text \in {runHiddenClaudeOnce([kind |-> "close", output |-> outputKind(hidden.output),
                                         code |-> exit.code, signal |-> exit.signal])} :
         \E h \in {[hidden EXCEPT !.child = "closed",
                                  !.seen = Append(@, [kind |-> "close", result |-> text])]} :
           HiddenBecomes(IF h.finished THEN h
                         ELSE [h EXCEPT !.finished = TRUE,
                                        !.timeout = IF @ = "pending" THEN "cleared" ELSE @,
                                        !.resolved = Append(@, text)])

HiddenNext ==
  \/ HiddenSpawn
  \/ HiddenData
  \/ WatchdogFires
  \/ ChildError
  \/ ChildClose

SpecHidden == Init /\ [][HiddenNext]_vars

\* ---- renderer (WorkspaceProvider) ------------------------------------------
\* agents[ptyId] is the AgentSession of the map, with the fields that the
\* event subscriptions write.  The events arrive over IPC; the provider is
\* mounted.  hist.spawned holds the ptyIds that shell.spawn has returned.
RendererBecomes(a) ==
  /\ agents' = a
  /\ UNCHANGED <<mainWindow, ptySessions, idleNotifTimers, sessionHadActivity, states,
                 runs, agent_sessions, continuation_state, procs, emitted,
                 ensembleVars, memoryVars, routerVars, spawnVars, hidden, reply>>

\* spawnAgent, after shell.spawn has returned a ptyId
SpawnAgent ==
  \E ptyId \in {Cardinality(hist.spawned) + 1} :
    /\ ptyId \in PtyIds
    /\ hist' = [hist EXCEPT !.spawned = @ \cup {ptyId}]
    /\ RendererBecomes(MapSet(agents, ptyId,
                              [status |-> "spawning", continuationActive |-> FALSE,
                               continuationIteration |-> 0]))

\* killAgent, after shell.kill has returned
KillAgent ==
  \E ptyId \in hist.spawned :
    /\ RendererBecomes(MapDelete(agents, ptyId))
    /\ UNCHANGED hist

\* window.shell.onData
ShellOnData ==
  \E ptyId \in PtyIds :
    /\ RendererBecomes(IF ptyId \notin DOMAIN agents THEN agents
                       ELSE [agents EXCEPT ![ptyId].status = "running"])
    /\ UNCHANGED hist

\* window.shell.onExit
ShellOnExit ==
  \E ptyId \in PtyIds :
    /\ RendererBecomes(IF ptyId \notin DOMAIN agents THEN agents
                       ELSE [agents EXCEPT ![ptyId].status = "dead"])
    /\ UNCHANGED hist

\* window.continuation.onIteration
ContinuationOnIteration ==
  \E ptyId \in PtyIds, iteration \in 1..MaxIterArg :
    /\ RendererBecomes(IF ptyId \notin DOMAIN agents THEN agents
                       ELSE [agents EXCEPT ![ptyId].continuationIteration = iteration,
                                           ![ptyId].continuationActive = TRUE])
    /\ UNCHANGED hist

\* window.continuation.onDone
ContinuationOnDone ==
  \E ptyId \in PtyIds :
    /\ RendererBecomes(IF ptyId \notin DOMAIN agents THEN agents
                       ELSE [agents EXCEPT ![ptyId].continuationActive = FALSE])
    /\ UNCHANGED hist

\* window.continuation.onMaxReached
ContinuationOnMaxReached ==
  \E ptyId \in PtyIds :
    /\ RendererBecomes(IF ptyId \notin DOMAIN agents THEN agents
                       ELSE [agents EXCEPT ![ptyId].continuationActive = FALSE,
                                           ![ptyId].status = "idle"])
    /\ UNCHANGED hist

\* startContinuation of the provider, after continuation.start has returned
StartContinuationReturns ==
  \E ptyId \in PtyIds :
    /\ RendererBecomes(IF ptyId \notin DOMAIN agents THEN agents
                       ELSE [agents EXCEPT ![ptyId].continuationActive = TRUE])
    /\ UNCHANGED hist

\* stopContinuation of the provider, after continuation.stop has returned
StopContinuationReturns ==
  \E ptyId \in PtyIds :
    /\ RendererBecomes(IF ptyId \notin DOMAIN agents THEN agents
                       ELSE [agents EXCEPT ![ptyId].continuationActive = FALSE])
    /\ UNCHANGED hist

RendererNext ==
  \/ SpawnAgent
  \/ KillAgent
  \/ ShellOnData
  \/ ShellOnExit
  \/ ContinuationOnIteration
  \/ ContinuationOnDone
  \/ ContinuationOnMaxReached
  \/ StartContinuationReturns
  \/ StopContinuationReturns

SpecRenderer == Init /\ [][RendererNext]_vars

\* ---- what the claims speak about ------------------------------------------
\* the ContinuationState objects in the heap
Objects == {r \in DOMAIN runs : runs[r].status # "free"}
\* the sessions whose handle has been removed
Ended == {p \in PtyIds : hist.removed[p] # "no"}
OneTo(k) == [i \in 1..k |-> i]

\* C1: the iteration events of a run carry 1, 2, ..., k in this order with
\* k <= maxIterations, and none is sent once the run is done, has reached its
\* maximum or is cancelled: an iteration event comes from the running state
\* that the map holds for its ptyId, and a state that is no longer running has
\* no timer left that could make it send one.
C1_IterationsPrefix ==
  /\ \A r \in Objects :
       /\ runs[r].iterations = OneTo(Len(runs[r].iterations))
       /\ Half(Len(runs[r].iterations)) <= runs[r].maxIterations
       /\ runs[r].status # "running" => runs[r].pending = 0
  /\ \A i \in 1..Len(emitted) :
       emitted[i].ev = "continuation:iteration" =>
         /\ emitted[i].pty \in DOMAIN states
         /\ runs[states[emitted[i].pty]].status = "running"
         /\ runs[states[emitted[i].pty]].currentIteration = emitted[i].n

\* the same with maxIterations a whole number
C1_WholeMaximum ==
  /\ \A r \in Objects :
       runs[r].maxIterations % 2 = 0 =>
         /\ runs[r].iterations = OneTo(Len(runs[r].iterations))
         /\ Half(Len(runs[r].iterations)) <= runs[r].maxIterations
         /\ runs[r].status # "running" => runs[r].pending = 0

\* C2: once shell.kill(ptyId) has run, ptyId has no continuation state and no
\* pending idle timer after the kill and after every later data chunk and exit
\* event of that session, and no 'Agent Idle' notification is shown for it.
C2_KilledStaysQuiet ==
  \A p \in PtyIds :
    hist.removed[p] = "kill" =>
      /\ ~Has(emitted, "notify:idle", p)
      /\ (Has(emitted, "shell:kill", p) \/ Has(emitted, "pty.onData", p)
            \/ Has(emitted, "pty.onExit", p)) =>
           (p \notin idleNotifTimers /\ p \notin DOMAIN states)

\* C3: the handles in the session map are those of the sessions that were
\* spawned and neither killed (by shell.kill, or by the window's close handler,
\* which kills every session) nor exited; their number is the number of
\* successful spawns minus the number of sessions ended, each counted once.
C3_HandlesAreLiveSessions ==
  /\ DOMAIN ptySessions = hist.spawned \ Ended
  /\ Cardinality(DOMAIN ptySessions) =
       Cardinality(hist.spawned) - Cardinality(Ended)

\* two sessions spawned, one killed and gone, the other still held
C3_Witness ==
  /\ Cardinality(hist.spawned) = 2
  /\ \E p \in hist.spawned : hist.removed[p] = "kill" /\ procs[p] = "alive"
  /\ Cardinality(DOMAIN ptySessions) = 1

\* C4: shell.kill is idempotent.  A shell.kill or an exit event for a ptyId
\* whose handle is already gone changes nothing: no pty.kill call, no row
\* ended again, and the handles, timers, continuation states and checkpoints of
\* all sessions stay as they were.
C4_KillIdempotent ==
  [][\A p \in PtyIds :
       (/\ p \notin DOMAIN ptySessions
        /\ Has(emitted', "shell:kill", p) \/ Has(emitted', "pty.onExit", p))
       => /\ ptySessions' = ptySessions
          /\ agent_sessions' = agent_sessions
          /\ idleNotifTimers' = idleNotifTimers
          /\ sessionHadActivity' = sessionHadActivity
          /\ states' = states
          /\ runs' = World.runs
          /\ continuation_state' = continuation_state
          /\ \A q \in PtyIds : ~Has(emitted', "pty.kill", q)]_vars

\* a second shell.kill has just run for a killed session whose child is still
\* alive, while another session has its handle, an idle timer and a continuation
C4_Witness ==
  \E p \in PtyIds, q \in PtyIds :
    /\ p # q
    /\ hist.removed[p] = "kill" /\ procs[p] = "alive"
    /\ Has(emitted, "shell:kill", p) /\ ~Has(emitted, "pty.kill", p)
    /\ q \in DOMAIN ptySessions /\ q \in idleNotifTimers /\ q \in DOMAIN states

\* C5: the row of every spawned session is active exactly while its handle is
\* in the map, and it has been set to ended exactly once when the handle is gone.
C5_RowEndedOnce ==
  /\ DOMAIN agent_sessions = hist.spawned
  /\ \A p \in hist.spawned :
       /\ p \in DOMAIN ptySessions <=> agent_sessions[p].status = "active"
       /\ p \notin DOMAIN ptySessions <=> agent_sessions[p].status = "ended"
       /\ agent_sessions[p].ended_at = IF p \in DOMAIN ptySessions THEN 0 ELSE 1
       /\ p \in DOMAIN ptySessions => ptySessions[p].sessionId = p

\* the exit event of a session that was killed before: its row stays ended once
C5_Witness ==
  \E p \in PtyIds :
    /\ hist.removed[p] = "kill"
    /\ Has(emitted, "pty.onExit", p)
    /\ agent_sessions[p].status = "ended" /\ agent_sessions[p].ended_at = 1

\* C6: when the child of a spawned PTY terminates (the window being open),
\* exactly one shell.exit event is sent, and then the session has no handle,
\* its row is ended and no continuation state exists for its ptyId.
C6_ExitEventOnce ==
  \A p \in PtyIds :
    (Has(emitted, "pty.onExit", p) /\ mainWindow = "open") =>
      /\ Count(emitted, "shell:exit", p) = 1
      /\ p \notin DOMAIN ptySessions
      /\ p \in DOMAIN agent_sessions /\ agent_sessions[p].status = "ended"
      /\ p \notin DOMAIN states

\* the quiet timer of object r has fired in this step
QuietFired(r) == \E i \in 1..Len(emitted') : emitted'[i] = Event("quietTimer", runs[r].ptyId, r)

\* C7: when the quiet timer fires for a running continuation whose window is
\* alive: a completion marker in the buffer gives done and removes the state
\* (whatever the prompt and the iteration count); else, with requirePrompt and
\* no idle prompt in the last lines, the timer is re-armed and nothing else
\* happens; else maxReached when currentIteration >= maxIterations, and one
\* iteration when it is smaller.
C7_TimerOutcome ==
  [][\A r \in DOMAIN runs :
       (/\ ~IsFree(World, r) /\ runs[r].status = "running"
        /\ ~runs[r].windowDestroyed /\ QuietFired(r))
       => LET st == runs[r]
              p  == st.ptyId
          IN IF DONE_PATTERNS(st.outputBuffer)
             THEN /\ emitted'[Len(emitted')] = Event("continuation:done", p, st.currentIteration)
                  /\ p \notin DOMAIN states'
                  /\ runs'[r].status = "done"
                  /\ ~Has(emitted', "continuation:iteration", p)
                  /\ ~Has(emitted', "continuation:maxReached", p)
             ELSE IF st.requirePrompt /\ ~IDLE_PROMPT_PATTERNS(LastLines(st.outputBuffer))
             THEN /\ Len(emitted') = 1
                  /\ runs'[r] = st
                  /\ states' = states
                  /\ continuation_state' = continuation_state
             ELSE IF Half(st.currentIteration) >= st.maxIterations
             THEN /\ emitted'[Len(emitted')] =
                       Event("continuation:maxReached", p, st.currentIteration)
                  /\ p \notin DOMAIN states'
                  /\ runs'[r].status = "max_reached"
                  /\ ~Has(emitted', "continuation:iteration", p)
                  /\ ~Has(emitted', "continuation:done", p)
             ELSE /\ Has(emitted', "continuation:iteration", p)
                  /\ runs'[r].currentIteration = st.currentIteration + 1
                  /\ runs'[r].status = "running"
                  /\ states'[p] = r
                  /\ ~Has(emitted', "continuation:done", p)
                  /\ ~Has(emitted', "continuation:maxReached", p)]_vars

\* done has just been sent for a run that stood at its maximum, its buffer
\* holding a completion phrase and no idle prompt
C7_Witness ==
  \E r \in Objects :
    /\ runs[r].status = "done"
    /\ Has(emitted, "quietTimer", runs[r].ptyId)
    /\ Has(emitted, "continuation:done", runs[r].ptyId)
    /\ Half(runs[r].currentIteration) >= runs[r].maxIterations
    /\ ~IDLE_PROMPT_PATTERNS(LastLines(runs[r].outputBuffer))

\* C8: at most one continuation state per ptyId; a start on a ptyId cancels the
\* state it had: the old object is cancelled with no timer left (so it never
\* runs a check and sends nothing more), and the new run begins with an empty
\* buffer at iteration 0 (at 1 when the start itself ran the kick-off iteration).
C8_OneStatePerPty ==
  /\ \A p \in DOMAIN states :
       runs[states[p]].status = "running" /\ runs[states[p]].ptyId = p
  /\ \A r \in Objects :
       /\ runs[r].status = "running" =>
            runs[r].ptyId \in DOMAIN states /\ states[runs[r].ptyId] = r
       /\ runs[r].status # "running" => runs[r].pending = 0
  /\ \A p \in PtyIds :
       Has(emitted, "continuation:start", p) =>
         /\ p \in DOMAIN states
         /\ runs[states[p]].outputBuffer = <<>>
         /\ runs[states[p]].iterations \in {<<>>, <<1>>}
         /\ runs[states[p]].currentIteration = Len(runs[states[p]].iterations)
         /\ \A r \in Objects \ {states[p]} :
              runs[r].ptyId = p => runs[r].status = "cancelled"

\* a start has just replaced a run that had already made an iteration
C8_Witness ==
  \E p \in PtyIds, r \in Objects :
    /\ Has(emitted, "continuation:start", p)
    /\ runs[r].ptyId = p /\ runs[r].status = "cancelled"
    /\ runs[r].currentIteration >= 1
    /\ p \in DOMAIN states /\ runs[states[p]].currentIteration = 0

Running(r) == runs[r].status = "running"
\* run r has ended with maxReached after the iterations 1..k, its state removed
ReachedMax(r, k) ==
  /\ runs[r].status = "max_reached"
  /\ runs[r].iterations = OneTo(k)
  /\ runs[r].currentIteration = k
  /\ runs[r].ends = 1
  /\ emitted[Len(emitted)] = Event("continuation:maxReached", runs[r].ptyId, k)
  /\ Count(emitted, "continuation:maxReached", runs[r].ptyId) = 1
  /\ runs[r].ptyId \in DOMAIN states => states[runs[r].ptyId] # r
\* run r has made no iteration yet and sees no idle prompt in its buffer
AwaitsPrompt(r) ==
  /\ runs[r].status = "running"
  /\ runs[r].continues = 0
  /\ ~IDLE_PROMPT_PATTERNS(LastLines(runs[r].outputBuffer))

ProgressOf(job) == SelectSeq(job.events, LAMBDA v : v.ev = "ensemble:progress")
DoneOf(job) == SelectSeq(job.events, LAMBDA v : v.ev = "ensemble:done")
ResultStrings ==
  {"text", "(empty)", "(exit code)", "(terminated)", "(timed out)", "(runner error)"}
Resolved(job) == job.final \in ResultStrings

\* C11: the progress events of a job carry completed = 0, 1, 2, ... without a
\* gap or a repetition, never more than total = n with n in 1..12, and they
\* have reached n once the fan-out is over, in whatever order the runs end.
C11_ProgressCountsUp ==
  \A j \in 1..Len(jobs) :
    LET job == jobs[j]
        p == ProgressOf(job)
    IN /\ job.count \in SYNTH_MIN_RUNS..SYNTH_MAX_RUNS
       /\ Len(p) = job.completed + 1
       /\ \A k \in 1..Len(p) : p[k].completed = k - 1
       /\ job.completed <= job.count
       /\ job.phase \in {"final", "returned"} => job.completed = job.count

\* a job of three runs whose last run ended before its first one
C11_Witness ==
  \E j \in 1..Len(jobs) :
    /\ jobs[j].count = 3
    /\ jobs[j].runs[3] = "settled"
    /\ jobs[j].runs[1] = "running"
    /\ Len(ProgressOf(jobs[j])) = 2

\* C12: done is emitted at most once per job, as the last event, after the
\* progress event with completed = n and after the final run has resolved;
\* the final run is launched only when all n runs have resolved; done carries
\* the non-empty session id that is returned.
C12_DoneOnceAfterFinal ==
  \A j \in 1..Len(jobs) :
    LET job == jobs[j]
    IN /\ Len(DoneOf(job)) <= 1
       /\ job.final # "none" => \A i \in 1..job.count : job.runs[i] = "settled"
       /\ \A k \in 1..Len(job.events) :
            job.events[k].ev = "ensemble:done" =>
              /\ k = Len(job.events)
              /\ \E m \in 1..(k - 1) : /\ job.events[m].ev = "ensemble:progress"
                                       /\ job.events[m].completed = job.count
              /\ Resolved(job)
              /\ job.events[k].sessionId # 0
              /\ job.call = "resolved"
              /\ job.returned.sessionId = job.events[k].sessionId

\* a job of two runs that has emitted done
C12_Witness ==
  \E j \in 1..Len(jobs) :
    /\ jobs[j].count = 2
    /\ Len(DoneOf(jobs[j])) = 1
    /\ jobs[j].phase = "returned"

\* C13: when the child of the final run cannot be spawned the call ends with
\* an error, not with a result.
C13_FinalSpawnFailureSurfaces ==
  \A j \in 1..Len(jobs) :
    jobs[j].final = "(runner error)" => jobs[j].call = "rejected"

\* C14: a run that has ended has put a string into its slot, whatever its
\* outcome; the call throws only when a home could not be made; when all runs
\* have ended the final run is launched, and when that has resolved done has
\* been emitted and the result is ok with count n.
C14_RunOutcomesNeverFailJob ==
  \A j \in 1..Len(jobs) :
    LET job == jobs[j]
    IN /\ \A i \in 1..job.count :
            job.runs[i] = "settled" => job.results[i] \in ResultStrings
       /\ job.phase = "threw" => \E i \in 1..job.count : job.runs[i] = "rejected"
       /\ (\A i \in 1..job.count : job.runs[i] = "settled") =>
            job.phase \in {"final", "returned"}
       /\ Resolved(job) =>
            /\ Len(DoneOf(job)) = 1
            /\ job.call = "resolved"
            /\ job.returned = [ok |-> TRUE, count |-> job.count,
                               sessionId |-> job.sessionId, jobId |-> j]

\* a job that returned ok although two of its runs failed in different ways
C14_Witness ==
  \E j \in 1..Len(jobs) :
    /\ jobs[j].phase = "returned"
    /\ jobs[j].count >= 2
    /\ \E i, k \in 1..jobs[j].count :
         /\ jobs[j].results[i] \in ResultStrings \ {"text", "(empty)"}
         /\ jobs[j].results[k] \in ResultStrings \ {"text", "(empty)", jobs[j].results[i]}

\* C15: when a call has returned or thrown, none of the temp roots made for
\* its runs exists any more.
C15_NoTempRootLeft ==
  \A j \in 1..Len(jobs) :
    jobs[j].phase \in {"returned", "threw"} =>
      \A i \in 1..jobs[j].count : <<j, i>> \notin tempRoots

\* C16 as stated: no step writes ~/.claude.json or a file under ~/.claude/.
C16_RealHomeReadOnly == [][userHome' = userHome]_vars

\* C16: no step changes a file under ~/.claude/, and ~/.claude.json changes
\* only when it exists and does not parse: it then gets the content of the
\* newest backup that parses.
C16_RealHomeOnlyRestored ==
  [][\/ userHome' = userHome
     \/ /\ userHome.claudeJson # "absent"
        /\ ~isValidJsonText(userHome.claudeJson)
        /\ userHome'.backups = userHome.backups
        /\ \E i \in 1..Len(userHome.backups) :
             /\ isValidJsonText(userHome.backups[i])
             /\ \A k \in 1..(i - 1) : ~isValidJsonText(userHome.backups[k])
             /\ userHome'.claudeJson = userHome.backups[i]]_vars

\* a call has restored the config from the second newest backup
C16_Witness ==
  /\ Len(jobs) >= 1
  /\ userHome = [claudeJson |-> "backup", backups |-> <<"corrupt", "backup">>]

\* ---- the memory store
\* C17: a search falls back to LIKE only after an FTS syntax error; a
\* full-text query that succeeds is what is returned; any other error is
\* thrown without a fallback.
C17_FallbackOnSyntaxErrorOnly ==
  reply.op = "search" =>
    /\ reply.like => reply.fts = "fts5: syntax error"
    /\ reply.fts = "rows" => ~reply.like /\ ~reply.threw
    /\ reply.fts \notin {"rows", "fts5: syntax error"} => reply.threw /\ ~reply.like

\* C18: at most one row per (workspaceId, key); listMemories(w) has key k
\* exactly when the last operation on (w, k) was a store, with the content and
\* the category of that store; listMemories(w) and searchMemory(w, q) return
\* rows of workspace w only.
C18_LastStoreWins ==
  /\ \A w \in Workspaces, k \in MemoryKeys : Cardinality(RowIds(Store, w, k)) <= 1
  /\ \A w \in Workspaces, k \in MemoryKeys :
       LET hits == {r \in listMemories(Store, w, "undefined").rows : r.key = k}
       IN IF <<w, k>> \in DOMAIN memLast /\ memLast[<<w, k>>].op = "store"
          THEN /\ Cardinality(hits) = 1
               /\ \A r \in hits :
                    /\ r.content = memLast[<<w, k>>].content
                    /\ r.category = IF memLast[<<w, k>>].category = "undefined"
                                    THEN "core" ELSE memLast[<<w, k>>].category
          ELSE hits = {}
  /\ reply.op \in {"list", "search"} =>
       \A r \in reply.rows :
         workspace_memories.rows[r.id].workspace_id = reply.workspaceId

\* after three stores two rows are left, one in each workspace, and the
\* rows of one workspace have been listed
C18_Witness ==
  /\ workspace_memories.sqlite_sequence = 3
  /\ Cardinality(DOMAIN workspace_memories.rows) = 2
  /\ \A w \in Workspaces :
       \E id \in DOMAIN workspace_memories.rows :
         workspace_memories.rows[id].workspace_id = w
  /\ reply.op = "list"
  /\ reply.rows # {}

\* C19: the index holds exactly one entry (rowid, key, content) for each row
\* of workspace_memories and nothing else.
C19_IndexMirrorsRows ==
  /\ DOMAIN memories_fts =
       {FtsEntry(id, workspace_memories.rows[id]) : id \in DOMAIN workspace_memories.rows}
  /\ \A f \in DOMAIN memories_fts : memories_fts[f] = 1

\* the first row is the only one left after three stores on two keys, one of
\* which was deleted last: it has been replaced by a conflict update
C19_Witness ==
  /\ workspace_memories.sqlite_sequence = 3
  /\ DOMAIN workspace_memories.rows = {1}
  /\ Cardinality(DOMAIN memLast) = 2
  /\ \E x \in DOMAIN memLast : memLast[x].op = "delete"

\* ---- the task router
\* the sum of the weights of the matching keywords of a rule, in tenths
RECURSIVE MatchedTenths(_, _, _)
MatchedTenths(rule, description, i) ==
  IF i > Len(rule.keywords) THEN 0
  ELSE (IF test(rule.keywords[i], description) THEN rule.keywords[i].weight.t ELSE 0)
       + MatchedTenths(rule, description, i + 1)

\* C20: without preferredCli the result has the cli, category and rationale
\* of the earliest rule among those whose summed weight of matching keywords
\* is greatest, a rule without a match is never chosen, and without any match
\* the result is claude, deep, confidence 0.5.
C20_GreatestSumEarliestWins ==
  (reply.op = "route" /\ reply.preferredCli \in {"undefined", "null"}) =>
    LET sum == [i \in 1..Len(RULES) |-> MatchedTenths(RULES[i], task, 1)]
        top == CHOOSE i \in 1..Len(RULES) : \A k \in 1..Len(RULES) : sum[i] >= sum[k]
        first == CHOOSE i \in 1..Len(RULES) :
                   sum[i] = sum[top] /\ \A k \in 1..(i - 1) : sum[k] < sum[top]
    IN IF sum[top] = 0
       THEN /\ reply.result.cli = "claude"
            /\ reply.result.category = "deep"
            /\ reply.result.rationale = "Claude as default general-purpose agent"
            /\ reply.result.confidence = <<Double(5), Double(10)>>
       ELSE /\ reply.result.cli = RULES[first].cli
            /\ reply.result.category = RULES[first].category
            /\ reply.result.rationale = RULES[first].rationale

\* ---- the supervisor and the engine, continued
\* C22 (and C27) compare what a handler leaves with what it found
SessionsUnchanged ==
  /\ ptySessions' = ptySessions
  /\ agent_sessions' = agent_sessions
  /\ idleNotifTimers' = idleNotifTimers
  /\ sessionHadActivity' = sessionHadActivity
  /\ procs' = procs

\* C22: a shell.spawn whose nodePty.spawn throws returns the error and
\* changes nothing: no agent_sessions row, no handle in the session map, no
\* idle timer, no activity flag, no child, and the continuations, their
\* checkpoint rows and the ids known to the renderer are as before.
C22_FailedSpawnChangesNothing ==
  [][Has(emitted', "spawn:error", 0) =>
       /\ SessionsUnchanged
       /\ Len(emitted') = 1
       /\ states' = states
       /\ continuation_state' = continuation_state
       /\ runs' = World.runs
       /\ hist' = hist
       /\ mainWindow' = mainWindow]_vars

\* a spawn has just failed while an earlier session is alive
C22_Witness ==
  /\ emitted = <<Event("spawn:error", 0, 0)>>
  /\ \E p \in DOMAIN ptySessions : procs[p] = "alive"
  /\ NextPtyId \in PtyIds

\* C23: a PTY exit shows exactly one 'Agent Exited' notification when the
\* window is not focused, whatever the session did before and however it was
\* ended, and none when the window is focused.
C23_ExitNotifiesWhenUnfocused ==
  [][\A p \in PtyIds :
       /\ Has(emitted', "pty.onExit", p) /\ emitted'[1] = Event("pty.onExit", p, 0)
          => Count(emitted', "notify:exited", p) = 1
       /\ Has(emitted', "pty.onExit", p) /\ emitted'[1] = Event("pty.onExit", p, 1)
          => Count(emitted', "notify:exited", p) = 0]_vars

\* C25: when the quiet timer of a running continuation fires and its window
\* is destroyed, the state is removed from the map and the handler does
\* nothing else: no event, no hook, no onContinue, no new timer.
C25_DestroyedWindowStopsQuietly ==
  [][\A r \in DOMAIN runs :
       (/\ ~IsFree(World, r) /\ runs[r].status = "running"
        /\ runs[r].windowDestroyed /\ QuietFired(r))
       => /\ Len(emitted') = 1
          /\ runs[r].ptyId \notin DOMAIN states'
          /\ runs'[r].status = "cancelled"
          /\ runs'[r].pending = 0
          /\ runs'[r].iterations = runs[r].iterations
          /\ runs'[r].continues = runs[r].continues
          /\ runs'[r].ends = runs[r].ends]_vars

\* a continuation that outlived its window has been cancelled by its timer
C25_Witness ==
  \E r \in Objects :
    /\ runs[r].status = "cancelled"
    /\ runs[r].windowDestroyed
    /\ emitted = <<Event("quietTimer", runs[r].ptyId, r)>>

\* C26: a checkpoint row for ptyId exists exactly when the engine's map holds
\* a state for ptyId.
C26_CheckpointIffState == DOMAIN continuation_state = DOMAIN states

\* C27: continuation.stop(ptyId) leaves the session map, the children, the
\* agent_sessions rows, the idle timers and every other continuation as they
\* were, and sends and calls nothing; afterwards ptyId has no state and no
\* checkpoint row; when it had neither, nothing changes at all.
C27_StopOnlyStopsContinuation ==
  [][\A p \in PtyIds :
       Has(emitted', "continuation:stop", p) =>
         /\ SessionsUnchanged
         /\ Len(emitted') = 1
         /\ p \notin DOMAIN states'
         /\ p \notin DOMAIN continuation_state'
         /\ \A q \in PtyIds \ {p} :
              /\ q \in DOMAIN states' <=> q \in DOMAIN states
              /\ q \in DOMAIN states => states'[q] = states[q]
              /\ q \in DOMAIN continuation_state' <=> q \in DOMAIN continuation_state
              /\ q \in DOMAIN continuation_state =>
                   continuation_state'[q] = continuation_state[q]
         /\ \A r \in DOMAIN runs :
              (~IsFree(World, r) /\ runs[r].ptyId # p) => runs'[r] = runs[r]
         /\ (p \notin DOMAIN states /\ p \notin DOMAIN continuation_state) =>
              /\ states' = states
              /\ continuation_state' = continuation_state
              /\ runs' = World.runs]_vars

\* a stop has just cancelled the continuation of a live session that has run
\* an iteration and waits for its idle timer
C27_Witness ==
  \E p \in DOMAIN ptySessions, r \in Objects :
    /\ emitted = <<Event("continuation:stop", p, 0)>>
    /\ runs[r].ptyId = p /\ runs[r].status = "cancelled"
    /\ agent_sessions[ptySessions[p].sessionId].iteration_count >= 1
    /\ p \in idleNotifTimers
    /\ procs[p] = "alive"

\* C30: every state in the engine's map is running, and a state that is done,
\* has reached its maximum or is cancelled is in the map under no ptyId.
C30_MapHoldsRunningOnly ==
  /\ \A p \in DOMAIN states : runs[states[p]].status = "running"
  /\ \A r \in Objects :
       runs[r].status \in {"done", "max_reached", "cancelled"} =>
         \A p \in DOMAIN states : states[p] # r

\* a state has just reached its maximum and its ptyId has left the map
C30_Witness ==
  \E r \in Objects :
    /\ runs[r].status = "max_reached"
    /\ Has(emitted, "continuation:maxReached", runs[r].ptyId)
    /\ runs[r].ptyId \notin DOMAIN states

\* ---- shell:spawn and continuation:start with all their arguments
\* C21: whatever maxIterations continuation.start is called with, the value
\* saved in the checkpoint row and the value the engine's state holds lie in
\* [1, 100] (in halves: [2, 200]).
C21_MaxIterationsInRange ==
  /\ \A p \in DOMAIN continuation_state :
       continuation_state[p].max_iterations \in Half(1)..Half(MAX_ITERATIONS_CAP)
  /\ \A p \in DOMAIN states :
       runs[states[p]].maxIterations \in Half(1)..Half(MAX_ITERATIONS_CAP)

\* C24: a goal timer that fires for a session whose handle has left the
\* session map (killed or exited) attempts no write to the child.
C24_NoGoalWriteAfterEnd ==
  [][\A p \in PtyIds :
       (Has(emitted', "goalTimer", p) /\ p \notin DOMAIN ptySessions)
         => ~Has(emitted', "pty.write", p)]_vars

\* C28: the environment of every child has allow-listed keys only, each
\* copied key has the parent's value, TERM is xterm-256color, COLORTERM is
\* truecolor, and LANG is the parent's LANG when the parent has a non-empty
\* one and en_US.UTF-8 otherwise.
C28_ChildEnvSanitized ==
  \A p \in DOMAIN children :
    LET env == children[p].env
    IN /\ DOMAIN env \subseteq ENV_ALLOWLIST
       /\ \A key \in DOMAIN env \ {"TERM", "COLORTERM", "LANG"} :
            key \in DOMAIN processEnv /\ env[key] = processEnv[key]
       /\ env["TERM"] = "xterm-256color"
       /\ env["COLORTERM"] = "truecolor"
       /\ env["LANG"] = IF "LANG" \in DOMAIN processEnv /\ processEnv["LANG"] # ""
                        THEN processEnv["LANG"] ELSE "en_US.UTF-8"

\* a child of a parent whose environment has a key outside the allow-list and
\* its own TERM and LANG
C28_Witness ==
  \E p \in DOMAIN children :
    /\ "NODE_OPTIONS" \in DOMAIN processEnv
    /\ processEnv["TERM"] = "dumb"
    /\ children[p].env["PATH"] = "/usr/bin"
    /\ children[p].env["LANG"] = "de_DE.UTF-8"

\* an optional string that is given and has a character that is not whitespace
NonBlank(opt) == opt # <<>> /\ \E i \in 1..Len(opt[1]) : opt[1][i] # " "

\* C29: every child was spawned in the mode that the arguments select: the
\* one-shot loop when oneShotLoop is set, the goal is not blank and the CLI is
\* claude; else the shell session when shellSession is set; else the resume
\* when the CLI is claude and resumeSessionId is not blank; else the plain
\* interactive CLI.  A goal timer is set only for a plain interactive child
\* with a goal that is not blank.
C29_ModePrecedence ==
  \A p \in DOMAIN children :
    LET c == children[p]
        mode == IF c.oneShotLoop = <<TRUE>> /\ NonBlank(c.goal) /\ c.cliType = "claude"
                THEN "getOneShotRunnerCommand"
                ELSE IF c.shellSession = <<TRUE>>
                THEN "getPersistentInteractiveShellCommand"
                ELSE IF c.cliType = "claude" /\ NonBlank(c.resumeSessionId)
                THEN "getClaudeResumeCommand"
                ELSE "getCliCommand"
    IN /\ c.spawnSpec = mode
       /\ c.cliType # "claude" =>
            c.spawnSpec \notin {"getOneShotRunnerCommand", "getClaudeResumeCommand"}
       /\ p \in DOMAIN ptySessions =>
            (ptySessions[p].oneShotCommand <=> mode = "getOneShotRunnerCommand")
       /\ c.goalTimer => c.spawnSpec = "getCliCommand" /\ NonBlank(c.goal)
       /\ p \in DOMAIN goalTimers => c.goalTimer

\* a claude child spawned with a goal, oneShotLoop, shellSession and a
\* resumeSessionId all set runs the one-shot loop and has no goal timer
C29_Witness ==
  \E p \in DOMAIN children :
    /\ children[p].oneShotLoop = <<TRUE>> /\ children[p].shellSession = <<TRUE>>
    /\ NonBlank(children[p].resumeSessionId) /\ NonBlank(children[p].goal)
    /\ children[p].spawnSpec = "getOneShotRunnerCommand"
    /\ p \in DOMAIN ptySessions
    /\ p \notin DOMAIN goalTimers

\* ---- the engine's timer, kick-off, counters and checkpoints
\* C31: every continuation state in the map has exactly one quiet timer
\* pending, after every handler; no object has more than one.
C31_OneQuietTimer ==
  /\ \A p \in DOMAIN states :
       runs[states[p]].timer /\ runs[states[p]].pending = 1
  /\ \A r \in Objects : runs[r].pending <= 1

\* a data chunk has just reset the timer of a run that has made an iteration
C31_Witness ==
  \E p \in DOMAIN states :
    /\ Has(emitted, "pty.onData", p)
    /\ runs[states[p]].currentIteration >= 1
    /\ runs[states[p]].outputBuffer # <<>>
    /\ runs[states[p]].pending = 1

\* the session of p has a one-shot command, so a start on p kicks off
KicksOff(p) == p \in DOMAIN ptySessions /\ ptySessions[p].oneShotCommand

\* C32: a continuation.start with kickOff calls the hook, sends iteration 1,
\* calls onContinue and writes to the PTY inside the start, with an empty
\* buffer, and leaves the state at iteration 1 with its timer armed; a start
\* without kickOff sends nothing and leaves the state at iteration 0 with its
\* timer armed; an iteration event is sent only by a kick-off start or by a
\* quiet timer.
C32_KickOffIteratesAtOnce ==
  [][\A p \in PtyIds :
       /\ (Has(emitted', "continuation:start", p) /\ KicksOff(p)) =>
            /\ emitted' = <<Event("continuation:start", p, 0), Event("onIteration", p, 1),
                            Event("continuation:iteration", p, 1),
                            Event("onContinue", p, 0), Event("pty.write", p, 0)>>
            /\ p \in DOMAIN states'
            /\ runs'[states'[p]].currentIteration = 1
            /\ runs'[states'[p]].outputBuffer = <<>>
            /\ runs'[states'[p]].timer /\ runs'[states'[p]].pending = 1
       /\ (Has(emitted', "continuation:start", p) /\ ~KicksOff(p)) =>
            /\ emitted' = <<Event("continuation:start", p, 0)>>
            /\ p \in DOMAIN states'
            /\ runs'[states'[p]].currentIteration = 0
            /\ runs'[states'[p]].timer /\ runs'[states'[p]].pending = 1
       /\ Has(emitted', "continuation:iteration", p) =>
            \/ emitted'[1].ev = "quietTimer"
            \/ emitted'[1] = Event("continuation:start", p, 0) /\ KicksOff(p)]_vars

\* a start has just kicked off the first iteration of a one-shot session
C32_Witness ==
  \E p \in DOMAIN ptySessions :
    /\ ptySessions[p].oneShotCommand
    /\ Has(emitted, "continuation:start", p)
    /\ Has(emitted, "continuation:iteration", p)
    /\ Has(emitted, "pty.write", p)

\* C33: in every step the iteration_count of each session's row grows by the
\* number of iteration events sent for its ptyId when its handle is in the
\* session map, and stays as it is otherwise; a new row starts at 0.
C33_IterationCountCounts ==
  [][/\ \A p \in DOMAIN agent_sessions :
          /\ p \in DOMAIN agent_sessions'
          /\ agent_sessions'[p].iteration_count =
               agent_sessions[p].iteration_count +
                 (IF p \in DOMAIN ptySessions
                  THEN Count(emitted', "continuation:iteration", p) ELSE 0)
     /\ \A p \in DOMAIN agent_sessions' \ DOMAIN agent_sessions :
          agent_sessions'[p].iteration_count = 0]_vars

\* the second run of a session has made its first iteration: the row counts
\* the iterations of both runs
C33_Witness ==
  \E p \in DOMAIN ptySessions \cap DOMAIN states :
    /\ agent_sessions[ptySessions[p].sessionId].iteration_count >= 2
    /\ runs[states[p]].currentIteration = 1
    /\ Has(emitted, "continuation:iteration", p)

\* C34: when a ptyId has both a checkpoint row and a state in the map, the
\* row's current_iteration and max_iterations are the state's.
C34_CheckpointMirrorsState ==
  \A p \in DOMAIN states \cap DOMAIN continuation_state :
    /\ continuation_state[p].current_iteration = runs[states[p]].currentIteration
    /\ continuation_state[p].max_iterations = runs[states[p]].maxIterations

\* an iteration has just been written to the checkpoint row
C34_Witness ==
  \E p \in DOMAIN states \cap DOMAIN continuation_state :
    /\ Has(emitted, "continuation:iteration", p)
    /\ continuation_state[p].current_iteration >= 1

\* C35: a quiet timer sends an iteration only when the buffer of its run holds
\* output, and the buffer is empty right after a start and after each
\* iteration; so between two iterations of a run, and between a start without
\* kick-off and the first iteration, a data chunk was received.
C35_OutputBetweenIterations ==
  [][/\ \A r \in DOMAIN runs :
          (/\ ~IsFree(World, r) /\ QuietFired(r)
           /\ Has(emitted', "continuation:iteration", runs[r].ptyId))
          => /\ runs[r].outputBuffer # <<>>
             /\ runs[r].requirePrompt
             /\ IDLE_PROMPT_PATTERNS(LastLines(runs[r].outputBuffer))
     /\ \A p \in PtyIds :
          (Has(emitted', "continuation:iteration", p)
             \/ Has(emitted', "continuation:start", p))
          => p \in DOMAIN states' /\ runs'[states'[p]].outputBuffer = <<>>]_vars

\* the quiet timer has just sent the second iteration of a run
C35_Witness ==
  \E r \in Objects :
    /\ Has(emitted, "quietTimer", runs[r].ptyId)
    /\ Has(emitted, "continuation:iteration", runs[r].ptyId)
    /\ runs[r].currentIteration = 2

\* C36: every state in the engine's map and every checkpoint row belongs to a
\* ptyId whose handle is in the session map.
C36_ContinuationHasSession ==
  /\ DOMAIN states \subseteq DOMAIN ptySessions
  /\ DOMAIN continuation_state \subseteq DOMAIN ptySessions

\* C37: every child that is alive and was neither killed nor told to end by
\* the window's close has a handle in the session map.
C37_LiveChildIsTracked ==
  \A p \in PtyIds :
    (procs[p] = "alive" /\ hist.removed[p] = "no") => p \in DOMAIN ptySessions

\* ---- one hidden run
\* C38: resolve is called at most once; when spawnChild throws it is called
\* with the runner error and there is no watchdog and no kill; otherwise it is
\* called when the first of timeout, error and close arrives, with the string
\* of that event, and later events change nothing; the watchdog is cleared
\* when error or close came first; the run kills the child exactly when the
\* timeout came first.
C38_ResolvesOnceWithFirst ==
  /\ Len(hidden.resolved) <= 1
  /\ hidden.child = "failed" =>
       /\ hidden.resolved = <<"(runner error)">>
       /\ hidden.kills = 0 /\ hidden.timeout = "none" /\ hidden.seen = <<>>
  /\ (hidden.child # "failed" /\ hidden.seen = <<>>) =>
       hidden.resolved = <<>> /\ hidden.kills = 0
  /\ hidden.seen # <<>> =>
       /\ hidden.resolved = <<hidden.seen[1].result>>
       /\ hidden.kills = IF hidden.seen[1].kind = "timeout" THEN 1 ELSE 0
       /\ hidden.timeout = IF hidden.seen[1].kind = "timeout" THEN "fired" ELSE "cleared"

\* the watchdog fired first; the child, killed, has then closed with output
C38_Witness ==
  /\ Len(hidden.seen) >= 2
  /\ hidden.seen[1].kind = "timeout"
  /\ hidden.seen[Len(hidden.seen)].kind = "close"
  /\ hidden.seen[Len(hidden.seen)].result = "text"
  /\ hidden.resolved = <<"(timed out)">>

NoEntryFromEvents ==
  [][\A p \in PtyIds :
       (p \notin DOMAIN agents /\ p \in DOMAIN agents')
         => /\ p \notin hist.spawned /\ p \in hist'.spawned
            /\ agents'[p].status = "spawning"]_vars

====
